---- MODULE Spec2Model ----
(***************************************************************************)
(* systemctl2mqtt: the reconciliation engine of systemctl2mqtt.py.         *)
(*                                                                         *)
(* Strings the code inspects character by character (unit names, filter    *)
(* patterns, the census' load and active fields, topic ids) are sequences  *)
(* of one-character strings, so that equality, concatenation, substring    *)
(* tests, regular-expression prefix matching and topic sanitisation are    *)
(* computed as the code computes them.                                     *)
(***************************************************************************)
EXTENDS Integers, Sequences, FiniteSets, TLC

VARIABLES
    cfg,                         \* self.cfg (the fields the engine reads)
    known_event_services,        \* dict name -> ServiceEvent (the Registry)
    pending_destroy_operations,  \* dict name -> time marked missing
    systemctl_events,            \* Queue of journal records (FIFO)
    systemctl_events_qsize,      \* local of _handle_events_queue, read before get()
    services,                    \* the census _get_services() returned to __init__
    sent,                        \* the publishes of the main thread's last call
    raised,                      \* the exception that call raised, and its cause
    last_reload,                 \* whether it ran _reload_services, and what that registered
    now,                         \* time()
    pc,                          \* where the main thread is
    host,                        \* what the host answers to `systemctl --version`
    raise_known_exceptions,      \* the argument of loop_busy
    systemctl_version,           \* self.systemctl_version
    systemctl_events_t,          \* the events reader thread
    systemctl_stats_t,           \* the stats reader thread
    systemctl_stats,             \* Queue of rows of top (FIFO)
    systemctl_stats_qsize,       \* local of _handle_stats_queue, read before get()
    known_stat_services,         \* dict name -> pid -> time of the last row used
    last_stat_services,          \* dict name -> ServiceStats, or {} before the first
    stats_lookup,                \* the stats reader's locals while it resolves a row
    reader_threads               \* how many threads run each reader's target

\* fixed for a run
setup == <<cfg, host, raise_known_exceptions>>
\* set by __init__
started == <<systemctl_version, systemctl_events_t, systemctl_stats_t>>
\* the stats side
stats_state == <<systemctl_stats, systemctl_stats_qsize, known_stat_services,
                 last_stat_services>>

vars == <<cfg, known_event_services, pending_destroy_operations, systemctl_events,
          systemctl_events_qsize, services, sent, raised, last_reload, now, pc,
          host, raise_known_exceptions, systemctl_version, systemctl_events_t,
          systemctl_stats_t, systemctl_stats, systemctl_stats_qsize,
          known_stat_services, last_stat_services, stats_lookup, reader_threads>>

(***************************************************************************)
(* Bounds of the model                                                     *)
(***************************************************************************)
\* journal records that may wait in the queue at once
MaxBacklog == 1
\* the clock stops advancing here
MaxTime == 1
\* longest whitelist / blacklist drawn for the filter specification
MaxListLen == 2
\* cfg["destroyed_service_ttl"], in clock units
Ttl == 0
\* cfg["stats_record_seconds"], in ticks of the clock
StatsRecordSeconds == 1

(***************************************************************************)
(* Program constants (const.py)                                            *)
(***************************************************************************)
MAX_QUEUE_SIZE == 100

\* the first two rows' field names of STATS_REGISTRATION_ENTRIES; the other
\* 21 rows are handled by the same loop bodies
STATS_REGISTRATION_ENTRIES == << <<"c", "p", "u">>, <<"m", "e", "m", "o", "r", "y">> >>

\* the characters INVALID_HA_TOPIC_CHARS = [^a-zA-Z0-9_-] leaves alone
HA_TOPIC_CHARS ==
    { "a", "b", "c", "d", "e", "f", "g", "h", "i", "j", "k", "l", "m",
      "n", "o", "p", "q", "r", "s", "t", "u", "v", "w", "x", "y", "z",
      "A", "B", "C", "D", "E", "F", "G", "H", "I", "J", "K", "L", "M",
      "N", "O", "P", "Q", "R", "S", "T", "U", "V", "W", "X", "Y", "Z",
      "0", "1", "2", "3", "4", "5", "6", "7", "8", "9", "_", "-" }

\* INVALID_HA_TOPIC_CHARS.sub("_", s)
Sanitize(s) == [i \in 1..Len(s) |-> IF s[i] \in HA_TOPIC_CHARS THEN s[i] ELSE "_"]

(***************************************************************************)
(* Strings                                                                 *)
(***************************************************************************)
DotService == <<".", "s", "e", "r", "v", "i", "c", "e">>
UnitA  == <<"a">> \o DotService          \* "a.service"
UnitAB == <<"a", "b">> \o DotService     \* "ab.service"
UnitB  == <<"b">> \o DotService          \* "b.service"

\* the units the service lister may report
Units == {UnitA, UnitAB}
\* the units the journal may report
JournalUnits == {UnitA, UnitAB, UnitB}

StrLoad     == <<"l", "o", "a", "d">>
StrLoaded   == <<"l", "o", "a", "d", "e", "d">>
StrNotFound == <<"n", "o", "t", "-", "f", "o", "u", "n", "d">>
StrActive   == <<"a", "c", "t", "i", "v", "e">>
StrInactive == <<"i", "n", "a", "c", "t", "i", "v", "e">>
StrFailed   == <<"f", "a", "i", "l", "e", "d">>
StrActivating == <<"a", "c", "t", "i", "v", "a", "t", "i", "n", "g">>

\* Python's `needle in haystack` on strings
Contains(needle, haystack) ==
    \E i \in 0..(Len(haystack) - Len(needle)) :
        \A j \in 1..Len(needle) : haystack[i + j] = needle[j]

\* re.compile(pattern).match(s) is not None, for patterns made of literal
\* characters and "." (any character): match() anchors at the start of s only
ReMatch(pattern, s) ==
    /\ Len(pattern) <= Len(s)
    /\ \A i \in 1..Len(pattern) : pattern[i] = "." \/ pattern[i] = s[i]

(***************************************************************************)
(* Filter policy                                                           *)
(***************************************************************************)
_match_service(service, to_check) ==
    \/ service \in {to_check, to_check \o DotService}
    \/ ReMatch(to_check, service)

\* the for ... break ... else loop over the whitelist: TRUE iff the loop
\* left by break
RECURSIVE WhitelistBreaks(_, _)
WhitelistBreaks(service, whitelist) ==
    IF whitelist = <<>> THEN FALSE
    ELSE IF _match_service(service, Head(whitelist)) THEN TRUE
    ELSE WhitelistBreaks(service, Tail(whitelist))

\* the for loop over the blacklist: TRUE iff it returned False
RECURSIVE BlacklistReturns(_, _)
BlacklistReturns(service, blacklist) ==
    IF blacklist = <<>> THEN FALSE
    ELSE IF _match_service(service, Head(blacklist)) THEN TRUE
    ELSE BlacklistReturns(service, Tail(blacklist))

FilterWith(service, whitelist, blacklist) ==
    IF Len(whitelist) > 0 /\ ~WhitelistBreaks(service, whitelist)
    THEN FALSE
    ELSE IF BlacklistReturns(service, blacklist) THEN FALSE
    ELSE TRUE

\* a whitelist match that returns at once instead of going on to the blacklist
FilterWhitelistReturns(service) ==
    IF Len(cfg.service_whitelist) > 0
    THEN WhitelistBreaks(service, cfg.service_whitelist)
    ELSE ~BlacklistReturns(service, cfg.service_blacklist)

_filter_service(service) ==
    FilterWith(service, cfg.service_whitelist, cfg.service_blacklist)

(***************************************************************************)
(* Broker topics and payloads                                              *)
(***************************************************************************)
Msg(topic, payload, retain) == [topic |-> topic, payload |-> payload, retain |-> retain]

events_topic(service) == [kind |-> "events", id |-> service]
stats_topic(service) == [kind |-> "stats", id |-> service]
discovery_binary_sensor_topic(service) ==
    [kind |-> "binary_sensor",
     id |-> Sanitize(service \o <<"_", "e", "v", "e", "n", "t", "s">>)]
discovery_sensor_topic(service, field) ==
    [kind |-> "sensor",
     id |-> Sanitize(service \o <<"_">> \o field \o <<"_", "s", "t", "a", "t", "s">>)]

EmptyPayload == [kind |-> "empty"]                     \* ""
EmptyObject == [kind |-> "object"]                      \* json.dumps({})
EventPayload(entry) == [kind |-> "event", event |-> entry]   \* json.dumps(entry)
DiscoveryPayload(label, state_topic) ==
    [kind |-> "discovery", name |-> label, state_topic |-> state_topic]

(***************************************************************************)
(* Dictionaries                                                            *)
(***************************************************************************)
EmptyDict == [k \in {} |-> 0]
DictPut(d, k, v) == [x \in (DOMAIN d) \cup {k} |-> IF x = k THEN v ELSE d[x]]
DictDel(d, k) == [x \in (DOMAIN d) \ {k} |-> d[x]]

(***************************************************************************)
(* The engine's mutable maps and what a call did, as one value:            *)
(*   known   - self.known_event_services                                   *)
(*   pending - self.pending_destroy_operations                             *)
(*   sent    - the _mqtt_send calls made so far in this step               *)
(*   raised  - the exception that ended the call and its __cause__         *)
(*   reload  - whether the call ran _reload_services, and that call's      *)
(*             registered_services                                         *)
(***************************************************************************)
NoException == [exc |-> "none", cause |-> "none"]
NoReload == [ran |-> FALSE, registered_services |-> <<>>]
\* the stats reader is between two rows
NoLookup == [at |-> "idle", pid |-> 0, res |-> 0, cpu |-> 0, size |-> 0,
             service |-> <<>>, seen_pid |-> 0]
\* the threads running when the handles are e and s and no thread was
\* started twice
RunningThreads(e, s) ==
    [events |-> IF e = "alive" THEN 1 ELSE 0, stats |-> IF s = "alive" THEN 1 ELSE 0]

Machine(known, pending) ==
    [known |-> known, pending |-> pending, sent |-> <<>>, raised |-> NoException,
     reload |-> NoReload]

Failed(m) == m.raised.exc # "none"
\* raise exc
Raise(m, exc) == [m EXCEPT !.raised = [exc |-> exc, cause |-> "none"]]
\* except Exception as ex: raise exc from ex
RaiseFrom(m, exc) == [m EXCEPT !.raised = [exc |-> exc, cause |-> m.raised.exc]]

\* an engine that registers services whether or not events are enabled
b_events_always == TRUE
b_events == cfg.enable_events
b_stats == cfg.enable_stats

\* what int(service_pid.stdout.strip()) gives when stdout holds no number
PidFails == -1
\* "MainPID=0": the unit has no main process
NoMainPid == 0
MainPid(service) == 100 + Len(service)
ChildPid(service) == 200 + Len(service)
PidOutcomes(service) == {PidFails, NoMainPid, MainPid(service)}
\* what `ps --ppid <pid> -o pid=` lists
ChildPidOutcomes(service) == {<<ChildPid(service)>>}

\* one answer of the operating system to the lookups of one step
SysViews ==
    { sys \in [pid : [Units -> UNION {PidOutcomes(u) : u \in Units}],
               cpids : [Units -> UNION {ChildPidOutcomes(u) : u \in Units}]] :
        \A u \in Units : /\ sys.pid[u] \in PidOutcomes(u)
                         /\ sys.cpids[u] \in ChildPidOutcomes(u) }

_pid_for_service(sys, service) == sys.pid[service]

\* calls _pid_for_service itself, then lists the children of that pid
_child_pids_for_service(sys, service) ==
    IF _pid_for_service(sys, service) = PidFails
    THEN [raised |-> [exc |-> "ValueError", cause |-> "none"], pids |-> <<>>]
    ELSE [raised |-> NoException, pids |-> sys.cpids[service]]

(***************************************************************************)
(* register / unregister                                                   *)
(***************************************************************************)
\* a loop that registers the first stats field only
StatsRegistrationsFirstOnly(service, entries) ==
    IF entries = <<>> THEN <<>>
    ELSE << Msg(discovery_sensor_topic(service, Head(entries)),
                DiscoveryPayload(Head(entries), stats_topic(service)), TRUE),
            Msg(stats_topic(service), EmptyObject, TRUE) >>

RECURSIVE StatsRegistrations(_, _)
StatsRegistrations(service, entries) ==
    IF entries = <<>> THEN <<>>
    ELSE << Msg(discovery_sensor_topic(service, Head(entries)),
                DiscoveryPayload(Head(entries), stats_topic(service)), TRUE),
            Msg(stats_topic(service), EmptyObject, TRUE) >>
         \o StatsRegistrations(service, Tail(entries))

\* a register that keeps the child pids of an earlier entry of that name
\* and adds the new ones
RegisterAppending(m, service_entry) ==
    LET service == service_entry.name
        prior == IF service \in DOMAIN m.known THEN m.known[service].cpids ELSE <<>>
    IN [m EXCEPT !.known = DictPut(m.known, service,
                                   [service_entry EXCEPT !.cpids = prior \o @])]

_register_service(m, service_entry) ==
    LET service == service_entry.name IN
    [m EXCEPT
        !.known = DictPut(m.known, service, service_entry),
        !.sent = m.sent
                 \o << Msg(discovery_binary_sensor_topic(service),
                           DiscoveryPayload(<<"E", "v", "e", "n", "t", "s">>,
                                            events_topic(service)), TRUE),
                       Msg(events_topic(service), EventPayload(service_entry), TRUE) >>
                 \o StatsRegistrations(service, STATS_REGISTRATION_ENTRIES)]

RECURSIVE StatsRetractions(_, _)
StatsRetractions(service, entries) ==
    IF entries = <<>> THEN <<>>
    ELSE << Msg(discovery_sensor_topic(service, Head(entries)), EmptyPayload, TRUE) >>
         \o StatsRetractions(service, Tail(entries))

\* an unregister that leaves the stats topic alone
UnregisterWithoutStats(m, service) ==
    [m EXCEPT
        !.sent = m.sent
                 \o << Msg(discovery_binary_sensor_topic(service), EmptyPayload, TRUE),
                       Msg(events_topic(service), EmptyPayload, TRUE) >>
                 \o StatsRetractions(service, STATS_REGISTRATION_ENTRIES)]

_unregister_service(m, service) ==
    [m EXCEPT
        !.sent = m.sent
                 \o << Msg(discovery_binary_sensor_topic(service), EmptyPayload, TRUE),
                       Msg(events_topic(service), EmptyPayload, TRUE) >>
                 \o StatsRetractions(service, STATS_REGISTRATION_ENTRIES)
                 \o << Msg(stats_topic(service), EmptyPayload, TRUE) >>]

(***************************************************************************)
(* reload                                                                  *)
(***************************************************************************)
\* lines 582-593: the four branches; status is the census' sub field in each
StateStr(service_status) ==
    IF Contains(StrActive, service_status.active) THEN "on"
    ELSE IF Contains(StrInactive, service_status.active) THEN "off"
    ELSE IF Contains(StrFailed, service_status.active) THEN "off"
    ELSE "off"

StatusStr(service_status) == service_status.sub

Range(seq) == {seq[i] : i \in 1..Len(seq)}

\* the first loop of _reload_services, over the census in the lister's order
RECURSIVE ReloadScan(_, _, _, _)
ReloadScan(m, registered_services, census, sys) ==
    IF census = <<>> THEN [m |-> m, registered_services |-> registered_services]
    ELSE
        LET service_status == Head(census)
            service == service_status.unit
        IN
        IF /\ _filter_service(service)
           /\ Contains(StrLoad, service_status.load)
           /\ b_events
        THEN
            LET pid == _pid_for_service(sys, service)
                cpids == _child_pids_for_service(sys, service)
            IN
            IF pid = PidFails \/ Failed(cpids)
            THEN [m |-> Raise(m, "ValueError"),
                  registered_services |-> Append(registered_services, service)]
            ELSE
                LET m1 == _register_service(m,
                              [name |-> service,
                               description |-> service_status.description,
                               pid |-> pid,
                               cpids |-> cpids.pids,
                               status |-> StatusStr(service_status),
                               state |-> StateStr(service_status)])
                    m2 == IF service \in DOMAIN m1.pending
                          THEN [m1 EXCEPT !.pending = DictDel(m1.pending, service)]
                          ELSE m1
                IN ReloadScan(m2, Append(registered_services, service),
                              Tail(census), sys)
        ELSE ReloadScan(m, registered_services, Tail(census), sys)

\* `del d[k]`: KeyError when k is no key of d
PyDel(m, k) ==
    IF k \in DOMAIN m.pending
    THEN [m EXCEPT !.pending = DictDel(m.pending, k)]
    ELSE Raise(m, "KeyError")

\* the second loop of _reload_services, over the keys of the Registry (todo:
\* the keys not yet visited; the loop does the same whatever their order)
RECURSIVE MarkMissing(_, _, _, _)
MarkMissing(m, todo, registered_services, t) ==
    IF todo = {} THEN m
    ELSE
        LET service == CHOOSE s \in todo : TRUE IN
        IF /\ service \notin DOMAIN m.pending
           /\ service \notin Range(registered_services)
        THEN
            LET m1 == PyDel(m, service) IN
            IF Failed(m1) THEN m1
            ELSE MarkMissing([m1 EXCEPT !.pending = DictPut(m1.pending, service, t)],
                             todo \ {service}, registered_services, t)
        ELSE MarkMissing(m, todo \ {service}, registered_services, t)

_reload_services(m, census, sys, t) ==
    LET scan == ReloadScan(m, <<>>, census, sys)
        m1 == [scan.m EXCEPT !.reload = [ran |-> TRUE,
                                         registered_services |-> scan.registered_services]]
    IN
    IF Failed(m1) THEN m1
    ELSE MarkMissing(m1, DOMAIN m1.known, scan.registered_services, t)

(***************************************************************************)
(* destroy sweep                                                           *)
(***************************************************************************)
\* the loop over pending_destroy_operations.copy().items() (todo: the keys
\* not yet visited)
RECURSIVE RemoveLoop(_, _, _)
RemoveLoop(m, todo, t) ==
    IF todo = {} THEN m
    ELSE
        LET service == CHOOSE s \in todo : TRUE
            destroyed_at == m.pending[service]
        IN
        IF t - destroyed_at > cfg.destroyed_service_ttl
        THEN RemoveLoop([_unregister_service(m, service) EXCEPT
                            !.pending = DictDel(m.pending, service)],
                        todo \ {service}, t)
        ELSE RemoveLoop(m, todo \ {service}, t)

_remove_destroyed_services(m, t) ==
    LET m1 == RemoveLoop(m, DOMAIN m.pending, t) IN
    IF Failed(m1)
    THEN RaiseFrom(m1, "Systemctl2MqttEventsException")
    ELSE m1

(***************************************************************************)
(* event processing                                                        *)
(***************************************************************************)
RELOAD_MESSAGE == "Reloading."

\* an assignment that reaches every entry
SetFieldEverywhere(m, service, key, value) ==
    IF service \notin DOMAIN m.known
    THEN Raise(m, "KeyError")
    ELSE [m EXCEPT !.known = [o \in DOMAIN m.known |->
                                 [m.known[o] EXCEPT ![key] = value]]]

\* self.known_event_services[service][key] = value
SetField(m, service, key, value) ==
    IF service \notin DOMAIN m.known
    THEN Raise(m, "KeyError")
    ELSE [m EXCEPT !.known[service][key] = value]

\* lines 929-932, 940-943, 947-950: what each branch assigns
StartStatus(job_result) == IF job_result = "done" THEN "running" ELSE "failed"
\* a start that leaves the sensor off
StartStateOff == "off"
StartState == "on"
StopStatus(job_result) == IF job_result = "done" THEN "exited" ELSE "failed"
StopState == "off"
\* a restart handled like a start
RestartStatusLikeStart(job_result) == IF job_result = "done" THEN "running" ELSE "failed"
RestartStatus(job_result) == IF job_result = "done" THEN "exited" ELSE "failed"
RestartState == "off"

\* lines 920-961: the branches on JOB_TYPE / JOB_RESULT
JobTransition(m, event, sys) ==
    LET service == event.UNIT
        has_result == "JOB_RESULT" \in DOMAIN event
    IN
    IF "JOB_TYPE" \notin DOMAIN event THEN m
    ELSE IF event.JOB_TYPE = "start" /\ has_result THEN
        LET m1 == SetField(m, service, "status", StartStatus(event.JOB_RESULT))
            m2 == IF Failed(m1) THEN m1
                  ELSE SetField(m1, service, "state", StartState)
            pid == _pid_for_service(sys, service)
        IN
        IF Failed(m2) THEN m2
        ELSE IF pid = PidFails THEN Raise(m2, "ValueError")
        ELSE SetField(m2, service, "pid", pid)
    ELSE IF event.JOB_TYPE = "stop" /\ has_result THEN
        LET m1 == SetField(m, service, "status", StopStatus(event.JOB_RESULT))
        IN IF Failed(m1) THEN m1
           ELSE SetField(m1, service, "state", StopState)
    ELSE IF event.JOB_TYPE = "restart" /\ has_result THEN
        LET m1 == SetField(m, service, "status", RestartStatus(event.JOB_RESULT))
        IN IF Failed(m1) THEN m1
           ELSE SetField(m1, service, "state", RestartState)
    ELSE m

\* a handler that ends after the try block, without the publish
ProcessEventSilent(m, event, census, sys, t) ==
    LET m1 == IF "MESSAGE" \notin DOMAIN event
              THEN Raise(m, "KeyError")
              ELSE IF event.MESSAGE = RELOAD_MESSAGE
              THEN _reload_services(m, census, sys, t)
              ELSE m
        m2 == IF Failed(m1) THEN m1 ELSE JobTransition(m1, event, sys)
    IN
    IF Failed(m2) THEN RaiseFrom(m2, "Systemctl2MqttEventsException") ELSE m2

\* a handler that applies the job branches first and reloads after them
ProcessEventTransitionFirst(m, event, census, sys, t) ==
    LET service == event.UNIT
        m1 == IF "MESSAGE" \notin DOMAIN event
              THEN Raise(m, "KeyError")
              ELSE JobTransition(m, event, sys)
        m2 == IF Failed(m1) \/ event.MESSAGE # RELOAD_MESSAGE THEN m1
              ELSE _reload_services(m1, census, sys, t)
    IN
    IF Failed(m2)
    THEN RaiseFrom(m2, "Systemctl2MqttEventsException")
    ELSE IF service \notin DOMAIN m2.known
    THEN Raise(m2, "KeyError")
    ELSE [m2 EXCEPT !.sent = Append(m2.sent,
                         Msg(events_topic(service),
                             EventPayload(m2.known[service]), TRUE))]

\* lines 910-976: the try block, then the publish after it
ProcessEvent(m, event, census, sys, t) ==
    LET service == event.UNIT
        m1 == IF "MESSAGE" \notin DOMAIN event
              THEN Raise(m, "KeyError")
              ELSE IF event.MESSAGE = RELOAD_MESSAGE
              THEN _reload_services(m, census, sys, t)
              ELSE m
        m2 == IF Failed(m1) THEN m1 ELSE JobTransition(m1, event, sys)
    IN
    IF Failed(m2)
    THEN RaiseFrom(m2, "Systemctl2MqttEventsException")
    ELSE IF service \notin DOMAIN m2.known
    THEN Raise(m2, "KeyError")
    ELSE [m2 EXCEPT !.sent = Append(m2.sent,
                         Msg(events_topic(service),
                             EventPayload(m2.known[service]), TRUE))]

(***************************************************************************)
(* stats                                                                   *)
(*                                                                         *)
(* A queued row is [pid, res, cpu, service, ppid]: stat[0], stat[5],       *)
(* stat[8], stat[-2] and stat[-1] of the code. res and cpu are the number  *)
(* float() gives, or BadNumber when float() raises ValueError.             *)
(***************************************************************************)
BadNumber == -1
\* datetime.datetime(2020, 1, 1), on the clock of `now`
LongAgo == -1000

\* the engine's maps while a row is handled, and what the call did
StatsMachine(known, kstat, lstat) ==
    [known |-> known, kstat |-> kstat, lstat |-> lstat, sent |-> <<>>,
     raised |-> NoException, send_mqtt |-> FALSE]

StatsPayload(service_stats) == [kind |-> "stats", stats |-> service_stats]

RECURSIVE SumOf(_, _, _)
SumOf(pid_stats, pids, key) ==
    IF pids = {} THEN 0
    ELSE LET p == CHOOSE x \in pids : TRUE
         IN pid_stats[p][key] + SumOf(pid_stats, pids \ {p}, key)

\* a window that rejects a sample taken exactly one interval after the last
DueStrict(pid_date, check_date) == pid_date < check_date

\* line 1036: the last sample is at least one interval old
Due(pid_date, check_date) == pid_date <= check_date

\* lines 1012-1085: the try block
TryStat(m, stat, t) ==
    LET pid == stat.pid
        ppid == stat.ppid
        service == stat.service
        fresh == service \notin DOMAIN m.kstat
        kstat1 == IF fresh THEN DictPut(m.kstat, service, EmptyDict) ELSE m.kstat
        lstat1 == IF fresh THEN DictPut(m.lstat, service, EmptyDict) ELSE m.lstat
        kstat2 == IF pid \notin DOMAIN kstat1[service]
                  THEN DictPut(kstat1, service, DictPut(kstat1[service], pid, LongAgo))
                  ELSE kstat1
        check_date == t - cfg.stats_record_seconds
        pid_date == kstat2[service][pid]
        m1 == [m EXCEPT !.kstat = kstat2, !.lstat = lstat1]
    IN
    IF Due(pid_date, check_date)
    THEN
        LET m2 == [m1 EXCEPT !.send_mqtt = (ppid = pid),
                             !.kstat = DictPut(kstat2, service,
                                               DictPut(kstat2[service], pid, t))]
        IN
        IF stat.cpu = BadNumber \/ stat.res = BadNumber
        THEN Raise(m2, "ValueError")
        ELSE
            LET pid_stats == [pid |-> pid, cpu |-> stat.cpu,
                              memory |-> stat.res \div 1024]
                previous == IF lstat1[service] # EmptyDict
                            THEN lstat1[service].pid_stats
                            ELSE EmptyDict
                all_pid_stats == DictPut(previous, pid, pid_stats)
                service_stats ==
                    [name |-> service,
                     cpu |-> SumOf(all_pid_stats, DOMAIN all_pid_stats, "cpu"),
                     memory |-> SumOf(all_pid_stats, DOMAIN all_pid_stats, "memory"),
                     pid_stats |-> all_pid_stats]
            IN [m2 EXCEPT !.lstat = DictPut(lstat1, service, service_stats)]
    ELSE m1

\* a publish that keeps the per-pid entries of exited children
SendStatKeepsAll(m, stat, sys) ==
    LET service == stat.service
        child_pids == _child_pids_for_service(sys, service)
    IN
    IF Failed(child_pids) THEN [m EXCEPT !.raised = child_pids.raised]
    ELSE IF service \notin DOMAIN m.known THEN Raise(m, "KeyError")
    ELSE [m EXCEPT !.known = [m.known EXCEPT ![service].cpids = child_pids.pids],
                   !.sent = Append(m.sent,
                                   Msg(stats_topic(service),
                                       StatsPayload(m.lstat[service]), FALSE))]

\* lines 1094-1119: re-resolve the child pids, prune, publish
SendStat(m, stat, sys) ==
    LET service == stat.service
        ppid == stat.ppid
        child_pids == _child_pids_for_service(sys, service)
    IN
    IF Failed(child_pids) THEN [m EXCEPT !.raised = child_pids.raised]
    ELSE IF service \notin DOMAIN m.known THEN Raise(m, "KeyError")
    ELSE
        LET known1 == [m.known EXCEPT ![service].cpids = child_pids.pids]
            old == m.lstat[service].pid_stats
            kept == { p \in DOMAIN old : p = ppid \/ p \in Range(child_pids.pids) }
            pruned == [m.lstat[service] EXCEPT !.pid_stats = [p \in kept |-> old[p]]]
        IN [m EXCEPT !.known = known1,
                     !.lstat = DictPut(m.lstat, service, pruned),
                     !.sent = Append(m.sent,
                                     Msg(stats_topic(service), StatsPayload(pruned), FALSE))]

\* a handler that publishes for every sampled row, whatever its pid
ProcessStatSendsAccepted(m, stat, sys, t) ==
    LET m1 == TryStat(m, stat, t) IN
    IF Failed(m1) THEN RaiseFrom(m1, "Systemctl2MqttStatsException")
    ELSE IF /\ m1.kstat[stat.service][stat.pid] = t
            /\ m1.lstat[stat.service] # EmptyDict
    THEN SendStat(m1, stat, sys)
    ELSE m1

\* lines 1011-1119: what _handle_stats_queue does with a dequeued row
ProcessStat(m, stat, sys, t) ==
    LET m1 == TryStat(m, stat, t) IN
    IF Failed(m1) THEN RaiseFrom(m1, "Systemctl2MqttStatsException")
    ELSE IF m1.send_mqtt THEN SendStat(m1, stat, sys)
    ELSE m1

(***************************************************************************)
(* Inputs                                                                  *)
(***************************************************************************)
\* (load, active, sub) of a census line
CensusStates ==
    { [load |-> StrLoaded, active |-> StrActive, sub |-> "running"],
      [load |-> StrLoaded, active |-> StrInactive, sub |-> "dead"],
      [load |-> StrLoaded, active |-> StrFailed, sub |-> "failed"],
      [load |-> StrLoaded, active |-> StrActivating, sub |-> "start"],
      [load |-> StrNotFound, active |-> StrInactive, sub |-> "dead"] }

UnitOrder == <<UnitA, UnitAB>>

\* the census lines of the units in `present`, sorted by unit as the lister
\* prints them
RECURSIVE CensusLines(_, _, _)
CensusLines(order, present, st) ==
    IF order = <<>> THEN <<>>
    ELSE (IF Head(order) \in present
          THEN << [unit |-> Head(order),
                   load |-> st[Head(order)].load,
                   active |-> st[Head(order)].active,
                   sub |-> st[Head(order)].sub,
                   description |-> "desc"] >>
          ELSE <<>>)
         \o CensusLines(Tail(order), present, st)

\* what _get_services() may return
Censuses ==
    UNION { { CensusLines(UnitOrder, present, st) : st \in [present -> CensusStates] } :
            present \in SUBSET Units }

\* the records of a unit the journal may emit
JournalRecords(unit) ==
    { [UNIT |-> unit, MESSAGE |-> "msg", JOB_TYPE |-> jt, JOB_RESULT |-> jr] :
        jt \in {"start", "stop", "restart"}, jr \in {"done", "failed"} }
    \cup
    { [UNIT |-> unit, MESSAGE |-> "msg", JOB_TYPE |-> "reload", JOB_RESULT |-> "done"],
      [UNIT |-> unit, MESSAGE |-> "msg", JOB_TYPE |-> "stop"],
      [UNIT |-> unit, MESSAGE |-> "msg"],
      [UNIT |-> unit, MESSAGE |-> RELOAD_MESSAGE],
      [UNIT |-> unit, MESSAGE |-> RELOAD_MESSAGE,
       JOB_TYPE |-> "start", JOB_RESULT |-> "done"] }

\* every kind of record for one unit, a few for the others
JournalLines ==
    JournalRecords(UnitA)
    \cup { [UNIT |-> UnitAB, MESSAGE |-> "msg", JOB_TYPE |-> "start", JOB_RESULT |-> "done"],
           [UNIT |-> UnitAB, MESSAGE |-> "msg", JOB_TYPE |-> "stop", JOB_RESULT |-> "failed"],
           [UNIT |-> UnitAB, MESSAGE |-> "msg"],
           [UNIT |-> UnitB, MESSAGE |-> "msg", JOB_TYPE |-> "start", JOB_RESULT |-> "done"] }

\* the lookups a record makes: a reload looks every registered unit up, a
\* start event its own unit, any other record nothing
SysViewsFor(event) ==
    IF event.MESSAGE = RELOAD_MESSAGE THEN SysViews
    ELSE IF /\ "JOB_TYPE" \in DOMAIN event
            /\ event.JOB_TYPE = "start"
            /\ "JOB_RESULT" \in DOMAIN event
            /\ event.UNIT \in Units
    THEN { sys \in SysViews : \A u \in Units \ {event.UNIT} : sys.pid[u] = NoMainPid }
    ELSE { sys \in SysViews : \A u \in Units : sys.pid[u] = NoMainPid }

\* the rows top may print: a main or child pid of a unit, a resident size in
\* KB and a cpu share that float() reads, or a resident size it does not
\* ("1.2g")
TopLines ==
    { [pid |-> p, res |-> r, cpu |-> 3] :
        p \in UNION { {MainPid(u), ChildPid(u)} : u \in Units },
        r \in {2048, BadNumber} }

\* what `ps --ppid <pid> -o pid=` lists when a row is handled: the child may
\* have exited since the reload
StatChildPidOutcomes(service) == {<<>>, <<ChildPid(service)>>}

\* the lookup a row makes: the row of a main pid re-resolves the child pids
SysViewsForStat(stat) ==
    IF stat.pid = stat.ppid /\ stat.service \in Units
    THEN { [sys EXCEPT !.cpids[stat.service] = cpids] :
             sys \in { v \in SysViews :
                         \A u \in Units \ {stat.service} : v.pid[u] = NoMainPid },
             cpids \in StatChildPidOutcomes(stat.service) }
    ELSE { sys \in SysViews : \A u \in Units : sys.pid[u] = NoMainPid }

\* the filter patterns drawn: "a", ".b", "b"
Patterns == { <<"a">>, <<".", "b">>, <<"b">> }

SeqsUpTo(S, n) == UNION { [1..k -> S] : k \in 0..n }

Config(whitelist, blacklist, events, stats) ==
    [service_whitelist |-> whitelist,
     service_blacklist |-> blacklist,
     destroyed_service_ttl |-> Ttl,
     stats_record_seconds |-> StatsRecordSeconds,
     enable_events |-> events,
     enable_stats |-> stats]

\* the configurations of the engine's specification
Configs ==
    { Config(f[1], f[2], e[1], e[2]) :
        f \in { << <<>>, <<>> >>, << << <<"a">> >>, << <<".", "b">> >> >> },
        e \in { <<TRUE, FALSE>>, <<FALSE, TRUE>>, <<FALSE, FALSE>> } }

\* the configurations of the filter's specification
FilterConfigs ==
    { Config(whitelist, blacklist, TRUE, FALSE) :
        whitelist \in SeqsUpTo(Patterns, MaxListLen),
        blacklist \in SeqsUpTo(Patterns, MaxListLen) }

(***************************************************************************)
(* The main thread: __init__, then loop_busy() calling loop()              *)
(***************************************************************************)
status_topic == [kind |-> "status", id |-> <<>>]
version_topic == [kind |-> "version", id |-> <<>>]
StartupPublishes ==
    << Msg(status_topic, [kind |-> "text", text |-> "online"], TRUE),
       Msg(version_topic, [kind |-> "text", text |-> "version"], TRUE) >>

\* write back what a call did
Apply(m) ==
    /\ known_event_services' = m.known
    /\ pending_destroy_operations' = m.pending
    /\ sent' = m.sent
    /\ raised' = m.raised
    /\ last_reload' = m.reload

\* the class attributes, before __init__ has run
Fresh ==
    /\ known_event_services = EmptyDict
    /\ pending_destroy_operations = EmptyDict
    /\ systemctl_events = <<>>
    /\ systemctl_events_qsize = 0
    /\ services = <<>>
    /\ sent = <<>>
    /\ raised = NoException
    /\ last_reload = NoReload
    /\ now = 0
    /\ pc = "new"
    /\ systemctl_version = "unset"
    /\ systemctl_events_t = "unset"
    /\ systemctl_stats_t = "unset"
    /\ reader_threads = RunningThreads(systemctl_events_t, systemctl_stats_t)
    /\ systemctl_stats = <<>>
    /\ systemctl_stats_qsize = 0
    /\ known_stat_services = EmptyDict
    /\ last_stat_services = EmptyDict
    /\ stats_lookup = NoLookup

\* main(): systemctl is installed, loop_busy() is called with its default
Init ==
    /\ Fresh
    /\ cfg \in Configs
    /\ host = [systemctl |-> "ok"]
    /\ raise_known_exceptions = FALSE

\* the answers of the host to SYSTEMCTL_VERSION_CMD: exit code 0, another
\* exit code, no such binary
VersionAnswers == {"ok", "nonzero", "missing"}

\* lines 375-405: FileNotFoundError is caught here and a text returned
_get_systemctl_version(answer) ==
    IF answer = "ok"
    THEN [raised |-> NoException, version |-> "systemd"]
    ELSE IF answer = "nonzero"
    THEN [raised |-> [exc |-> "Systemctl2MqttException", cause |-> "none"],
          version |-> "unset"]
    ELSE [raised |-> NoException,
          version |-> "Systemctl is not installed or not found in PATH."]

\* lines 193-198: only a FileNotFoundError becomes a config exception
ResolveVersion(answer) ==
    LET r == _get_systemctl_version(answer) IN
    IF r.raised.exc = "FileNotFoundError"
    THEN [r EXCEPT !.raised = [exc |-> "Systemctl2MqttConfigException",
                               cause |-> "FileNotFoundError"]]
    ELSE r

\* __init__, lines 166-233: resolve the version of systemctl, connect to the
\* broker, publish status and version
Connect ==
    /\ pc = "new"
    /\ LET r == ResolveVersion(host.systemctl) IN
       IF r.raised # NoException
       THEN /\ raised' = r.raised
            /\ pc' = "crashed"
            /\ UNCHANGED <<sent, systemctl_version>>
       ELSE /\ systemctl_version' = r.version
            /\ sent' = StartupPublishes
            /\ pc' = "init_get_services"
            /\ UNCHANGED raised
    /\ UNCHANGED <<setup, stats_lookup, reader_threads, systemctl_events_t, systemctl_stats_t, stats_state,
                   known_event_services, pending_destroy_operations,
                   systemctl_events, systemctl_events_qsize, services,
                   last_reload, now>>

\* __init__, line 236: _reload_services() first fetches the census;
\* subprocess.run raises FileNotFoundError when there is no such binary
GetServices ==
    /\ pc = "init_get_services"
    /\ IF host.systemctl = "missing"
       THEN /\ raised' = [exc |-> "FileNotFoundError", cause |-> "none"]
            /\ pc' = "crashed"
            /\ UNCHANGED services
       ELSE /\ services' \in Censuses
            /\ pc' = "init_reload"
            /\ UNCHANGED raised
    /\ UNCHANGED <<setup, stats_lookup, reader_threads, started, stats_state, known_event_services, pending_destroy_operations,
                   systemctl_events, systemctl_events_qsize, sent, last_reload, now>>

\* a reader started whatever is enabled
StartReaderAlways(enabled) == "alive"
\* lines 240-243, 250-253: a reader thread is started if it is enabled
StartReader(enabled) == IF enabled THEN "alive" ELSE "unset"

\* __init__, lines 236-261: _reload_services() over the fetched census, then
\* the readers are started, or the process exits when there is none to start
Construct ==
    /\ pc = "init_reload"
    /\ \E sys \in SysViews :
        LET m == _reload_services(
                     Machine(known_event_services, pending_destroy_operations),
                     services, sys, now)
        IN IF Failed(m)
           THEN /\ Apply(m)
                /\ pc' = "crashed"
                /\ UNCHANGED <<systemctl_events_t, systemctl_stats_t, reader_threads>>
           ELSE /\ systemctl_events_t' = StartReader(b_events)
                /\ systemctl_stats_t' = StartReader(b_stats)
                /\ reader_threads' =
                      [events |-> reader_threads.events
                                    + (IF systemctl_events_t' = "alive" THEN 1 ELSE 0),
                       stats |-> reader_threads.stats
                                   + (IF systemctl_stats_t' = "alive" THEN 1 ELSE 0)]
                /\ IF ~b_events /\ ~b_stats
                   THEN /\ Apply(Raise(m, "SystemExit(1)"))
                        /\ pc' = "exited"
                   ELSE /\ Apply(m)
                        /\ pc' = "destroy"
    /\ services' = <<>>
    /\ UNCHANGED <<setup, stats_lookup, systemctl_version, stats_state, systemctl_events,
                   systemctl_events_qsize, now>>

\* a loop_busy that logs every events or stats exception
AfterHandlerLogs(m, next) ==
    IF ~Failed(m) THEN next
    ELSE IF m.raised.exc \in {"Systemctl2MqttEventsException",
                              "Systemctl2MqttStatsException"}
    THEN "sleep"
    ELSE "crashed"

\* where loop_busy goes after a handler of loop() returned or raised: an
\* events or stats exception is logged unless raise_known_exceptions, anything
\* else ends the process
AfterHandler(m, next) ==
    IF ~Failed(m) THEN next
    ELSE IF /\ m.raised.exc \in {"Systemctl2MqttEventsException",
                                 "Systemctl2MqttStatsException"}
            /\ ~raise_known_exceptions
    THEN "sleep"
    ELSE "crashed"

\* loop(): self._remove_destroyed_services()
RemoveDestroyedServices ==
    /\ pc = "destroy"
    /\ LET m == _remove_destroyed_services(
                    Machine(known_event_services, pending_destroy_operations), now)
       IN /\ Apply(m)
          /\ pc' = AfterHandler(m, "events_qsize")
    /\ UNCHANGED <<setup, stats_lookup, reader_threads, started, stats_state, systemctl_events, systemctl_events_qsize, services, now>>

\* _handle_events_queue, line 900: the queue's length is read first
HandleEventsQsize ==
    /\ pc = "events_qsize"
    /\ systemctl_events_qsize' = Len(systemctl_events)
    /\ pc' = "events_get"
    /\ sent' = <<>>
    /\ last_reload' = NoReload
    /\ UNCHANGED <<setup, stats_lookup, reader_threads, started, stats_state, known_event_services,
                   pending_destroy_operations, systemctl_events, services, raised, now>>

\* _handle_events_queue, lines 901-976: get(block=False), then the record is
\* handled only if the length read before was positive
HandleEventsGet ==
    /\ pc = "events_get"
    /\ LET got == b_events /\ systemctl_events # <<>>
           m0 == Machine(known_event_services, pending_destroy_operations)
       IN
       /\ systemctl_events' = IF got THEN Tail(systemctl_events) ELSE systemctl_events
       /\ IF got /\ systemctl_events_qsize > 0
          THEN LET event == Head(systemctl_events) IN
               \E census \in (IF event.MESSAGE = RELOAD_MESSAGE THEN Censuses ELSE {<<>>}),
                  sys \in SysViewsFor(event) :
                   LET m == ProcessEvent(m0, event, census, sys, now) IN
                   /\ Apply(m)
                   /\ pc' = AfterHandler(m, "stats_qsize")
          ELSE /\ Apply(m0)
               /\ pc' = "stats_qsize"
    /\ UNCHANGED <<setup, stats_lookup, reader_threads, started, stats_state, systemctl_events_qsize, services, now>>

\* _handle_stats_queue, line 990: the queue's length is read first
HandleStatsQsize ==
    /\ pc = "stats_qsize"
    /\ systemctl_stats_qsize' = Len(systemctl_stats)
    /\ pc' = "stats_get"
    /\ sent' = <<>>
    /\ last_reload' = NoReload
    /\ UNCHANGED <<setup, stats_lookup, reader_threads, started, systemctl_stats, known_stat_services,
                   last_stat_services, known_event_services,
                   pending_destroy_operations, systemctl_events,
                   systemctl_events_qsize, services, raised, now>>

\* _handle_stats_queue, lines 991-1119: get(block=False), returning when the
\* queue is empty; the row is handled only if the length read before was
\* positive
HandleStatsGet ==
    /\ pc = "stats_get"
    /\ LET got == b_stats /\ systemctl_stats # <<>>
           m0 == StatsMachine(known_event_services, known_stat_services,
                              last_stat_services)
       IN
       /\ systemctl_stats' = IF got THEN Tail(systemctl_stats) ELSE systemctl_stats
       /\ IF got /\ systemctl_stats_qsize > 0
          THEN LET stat == Head(systemctl_stats) IN
               \E sys \in SysViewsForStat(stat) :
                   LET m == ProcessStat(m0, stat, sys, now) IN
                   /\ known_event_services' = m.known
                   /\ known_stat_services' = m.kstat
                   /\ last_stat_services' = m.lstat
                   /\ sent' = m.sent
                   /\ raised' = m.raised
                   /\ pc' = AfterHandler(m, "restart")
          ELSE /\ pc' = "restart"
               /\ UNCHANGED <<known_event_services, known_stat_services,
                              last_stat_services, sent, raised>>
    /\ UNCHANGED <<setup, stats_lookup, reader_threads, started, systemctl_stats_qsize, pending_destroy_operations,
                   systemctl_events, systemctl_events_qsize, services, last_reload, now>>

\* a loop that starts a reader whenever it is enabled
RestartsEnabled(enabled, thread) == enabled
\* lines 313, 322: the condition under which the loop starts a reader
Restarts(enabled, thread) == enabled /\ thread # "alive"

\* a loop that leaves the readers as they are
RestartedNever(enabled, thread) == thread
\* lines 313-315, 322-324: if enabled and not thread.is_alive(): start it
Restarted(enabled, thread) ==
    IF Restarts(enabled, thread) THEN "alive" ELSE thread

\* loop(), lines 312-328: a reader that is enabled and whose thread is not
\* alive is started again
RestartReaders ==
    /\ pc = "restart"
    /\ systemctl_events_t' = Restarted(b_events, systemctl_events_t)
    /\ systemctl_stats_t' = Restarted(b_stats, systemctl_stats_t)
    /\ stats_lookup' = IF systemctl_stats_t' # systemctl_stats_t THEN NoLookup
                       ELSE stats_lookup
    /\ reader_threads' =
          [events |-> reader_threads.events
                        + (IF Restarts(b_events, systemctl_events_t) THEN 1 ELSE 0),
           stats |-> reader_threads.stats
                       + (IF Restarts(b_stats, systemctl_stats_t) THEN 1 ELSE 0)]
    /\ pc' = "sleep"
    /\ UNCHANGED <<setup, systemctl_version, stats_state, known_event_services,
                   pending_destroy_operations, systemctl_events,
                   systemctl_events_qsize, services, sent, raised, last_reload, now>>

\* a sleep that grows with the fuller queue
sleep_time_rising(events_qsize, stats_qsize) ==
    1000 + (200000 \div MAX_QUEUE_SIZE)
             * (IF events_qsize >= stats_qsize THEN events_qsize ELSE stats_qsize)

\* lines 367-371, in microseconds:
\* 0.001 + 0.2 / MAX_QUEUE_SIZE * (MAX_QUEUE_SIZE - max(qsize, qsize))
sleep_time(events_qsize, stats_qsize) ==
    1000 + (200000 \div MAX_QUEUE_SIZE)
             * (MAX_QUEUE_SIZE
                - (IF events_qsize >= stats_qsize THEN events_qsize ELSE stats_qsize))

\* loop_busy: sleep(sleep_time), during which the clock may advance
Sleep ==
    /\ pc = "sleep"
    /\ \E t \in {now, now + 1} :
        /\ t <= MaxTime
        /\ now' = t
    /\ pc' = "destroy"
    /\ sent' = <<>>
    /\ raised' = NoException
    /\ last_reload' = NoReload
    /\ systemctl_events_qsize' = 0
    /\ systemctl_stats_qsize' = 0
    /\ UNCHANGED <<setup, stats_lookup, reader_threads, started, systemctl_stats, known_stat_services,
                   last_stat_services, known_event_services,
                   pending_destroy_operations, systemctl_events, services>>

(***************************************************************************)
(* The events reader thread                                                *)
(***************************************************************************)
\* _run_readline_events_thread, one line: json.loads, filter, put (which
\* blocks while the queue is full)
EventsReader ==
    /\ pc \notin {"new", "init_get_services", "init_reload", "crashed", "exited"}
    /\ b_events
    /\ \E line_obj \in JournalLines :
        /\ _filter_service(line_obj.UNIT)
        /\ Len(systemctl_events) < MAX_QUEUE_SIZE
        /\ Len(systemctl_events) < MaxBacklog
        /\ systemctl_events' = Append(systemctl_events, line_obj)
    /\ UNCHANGED <<setup, stats_lookup, reader_threads, started, stats_state, known_event_services, pending_destroy_operations,
                   systemctl_events_qsize, services, sent, raised, last_reload,
                   now, pc>>

(***************************************************************************)
(* The stats reader thread                                                 *)
(***************************************************************************)
\* _run_readline_stats_thread, one line of top: the first Registry entry
\* that has the pid as its pid or among its cpids; the row is queued with
\* that service's name and pid appended
StatsReader ==
    /\ systemctl_stats_t = "alive"
    /\ pc \notin {"crashed", "exited"}
    /\ \E line \in TopLines :
        LET owners == { u \in DOMAIN known_event_services :
                          \/ known_event_services[u].pid = line.pid
                          \/ line.pid \in Range(known_event_services[u].cpids) }
        IN
        /\ owners # {}
        /\ Len(systemctl_stats) < MAX_QUEUE_SIZE
        /\ Len(systemctl_stats) < MaxBacklog
        /\ LET service == CHOOSE u \in owners : TRUE IN
           systemctl_stats' =
               Append(systemctl_stats,
                      [pid |-> line.pid, res |-> line.res, cpu |-> line.cpu,
                       service |-> service,
                       ppid |-> known_event_services[service].pid])
    /\ UNCHANGED <<setup, stats_lookup, reader_threads, started, systemctl_stats_qsize, known_stat_services,
                   last_stat_services, known_event_services,
                   pending_destroy_operations, systemctl_events,
                   systemctl_events_qsize, services, sent, raised, last_reload,
                   now, pc>>

(***************************************************************************)
(* The readers over chosen lines, followed up to a chosen backlog          *)
(***************************************************************************)
\* a put that never waits
QueueRoomAlways(queue) == TRUE
\* Queue(maxsize=MAX_QUEUE_SIZE).put(item) returns only when there is room
QueueRoom(queue) == Len(queue) < MAX_QUEUE_SIZE

\* a reader that puts its line at the front of the queue
EventsReaderAtFront(lines, backlog) ==
    /\ systemctl_events_t = "alive"
    /\ pc \notin {"crashed", "exited"}
    /\ \E line_obj \in lines :
        /\ _filter_service(line_obj.UNIT)
        /\ QueueRoom(systemctl_events)
        /\ Len(systemctl_events) < backlog
        /\ systemctl_events' = <<line_obj>> \o systemctl_events
    /\ UNCHANGED <<setup, stats_lookup, reader_threads, started, stats_state, known_event_services,
                   pending_destroy_operations, systemctl_events_qsize, services,
                   sent, raised, last_reload, now, pc>>

\* _run_readline_events_thread, one line of `lines`
EventsReaderOf(lines, backlog) ==
    /\ systemctl_events_t = "alive"
    /\ pc \notin {"crashed", "exited"}
    /\ \E line_obj \in lines :
        /\ _filter_service(line_obj.UNIT)
        /\ QueueRoom(systemctl_events)
        /\ Len(systemctl_events) < backlog
        /\ systemctl_events' = Append(systemctl_events, line_obj)
    /\ UNCHANGED <<setup, stats_lookup, reader_threads, started, stats_state, known_event_services,
                   pending_destroy_operations, systemctl_events_qsize, services,
                   sent, raised, last_reload, now, pc>>

\* _run_readline_stats_thread, one line of `lines`
StatsReaderOf(lines, backlog) ==
    /\ systemctl_stats_t = "alive"
    /\ pc \notin {"crashed", "exited"}
    /\ \E line \in lines :
        LET owners == { u \in DOMAIN known_event_services :
                          \/ known_event_services[u].pid = line.pid
                          \/ line.pid \in Range(known_event_services[u].cpids) }
        IN
        /\ owners # {}
        /\ QueueRoom(systemctl_stats)
        /\ Len(systemctl_stats) < backlog
        /\ LET service == CHOOSE u \in owners : TRUE IN
           systemctl_stats' =
               Append(systemctl_stats,
                      [pid |-> line.pid, res |-> line.res, cpu |-> line.cpu,
                       service |-> service,
                       ppid |-> known_event_services[service].pid])
    /\ UNCHANGED <<setup, stats_lookup, reader_threads, started, systemctl_stats_qsize, known_stat_services,
                   last_stat_services, known_event_services,
                   pending_destroy_operations, systemctl_events,
                   systemctl_events_qsize, services, sent, raised, last_reload,
                   now, pc>>

\* the engine as __init__ leaves it under configuration c, when its reload
\* saw this census and these answers to the lookups
Built(c, census, sys) ==
    /\ cfg = c
    /\ host = [systemctl |-> "ok"]
    /\ stats_lookup = NoLookup
    /\ raise_known_exceptions = FALSE
    /\ LET m == _reload_services(Machine(EmptyDict, EmptyDict), census, sys, 0) IN
       /\ known_event_services = m.known
       /\ pending_destroy_operations = m.pending
       /\ sent = m.sent
       /\ raised = m.raised
       /\ last_reload = m.reload
    /\ systemctl_events = <<>>
    /\ systemctl_events_qsize = 0
    /\ services = <<>>
    /\ now = 0
    /\ pc = "destroy"
    /\ systemctl_version = "systemd"
    /\ systemctl_events_t = StartReader(c.enable_events)
    /\ systemctl_stats_t = StartReader(c.enable_stats)
    /\ reader_threads = RunningThreads(systemctl_events_t, systemctl_stats_t)
    /\ systemctl_stats = <<>>
    /\ systemctl_stats_qsize = 0
    /\ known_stat_services = EmptyDict
    /\ last_stat_services = EmptyDict

\* a census of a.service alone, running, and the lookups that find its main
\* pid
CensusRunningA ==
    CensusLines(UnitOrder, {UnitA},
                [u \in {UnitA} |-> [load |-> StrLoaded, active |-> StrActive,
                                    sub |-> "running"]])
SysRunningA ==
    [pid |-> [u \in Units |-> IF u = UnitA THEN MainPid(u) ELSE NoMainPid],
     cpids |-> [u \in Units |-> <<ChildPid(u)>>]]

\* the filter that admits a.service alone, and the one that admits b.service
\* alone
OnlyA(events, stats) == Config(<< <<"a">> >>, << <<".", "b">> >>, events, stats)
OnlyB(events, stats) == Config(<< <<"b">> >>, << <<"a">> >>, events, stats)

(***************************************************************************)
(* The queues up to their capacity: each reader reads one kind of line     *)
(***************************************************************************)
CapacityJournalLines ==
    { [UNIT |-> UnitB, MESSAGE |-> "msg", JOB_TYPE |-> "start", JOB_RESULT |-> "done"] }
CapacityTopLines == { [pid |-> ChildPid(UnitA), res |-> 2048, cpu |-> 3] }

InitQueue ==
    \/ Built(OnlyB(TRUE, FALSE), <<>>, SysRunningA)
    \/ Built(OnlyA(TRUE, TRUE), CensusRunningA, SysRunningA)


NextQueue ==
    \/ RemoveDestroyedServices
    \/ HandleEventsQsize
    \/ HandleEventsGet
    \/ HandleStatsQsize
    \/ HandleStatsGet
    \/ RestartReaders
    \/ Sleep
    \/ EventsReaderOf(CapacityJournalLines, MAX_QUEUE_SIZE + 1)
    \/ StatsReaderOf(CapacityTopLines, MAX_QUEUE_SIZE + 1)

SpecQueue == InitQueue /\ [][NextQueue]_vars

(***************************************************************************)
(* Readers that end and are started again; queues two deep. Either the     *)
(* journal is followed (whitelist "ab": ab.service is registered, stats    *)
(* are off), or top is (whitelist "a", blacklist ".b": a.service is        *)
(* registered and the journal lines drawn do not pass), or top is while    *)
(* events are off (the same filter and census)                             *)
(***************************************************************************)
MaxOrderBacklog == 2

OrderJournalLines ==
    { [UNIT |-> UnitAB, MESSAGE |-> "msg", JOB_TYPE |-> "start", JOB_RESULT |-> "done"],
      [UNIT |-> UnitAB, MESSAGE |-> "msg", JOB_TYPE |-> "stop", JOB_RESULT |-> "failed"] }

OrderTopLines ==
    { [pid |-> MainPid(UnitA), res |-> 2048, cpu |-> 3],
      [pid |-> MainPid(UnitA), res |-> BadNumber, cpu |-> 3],
      [pid |-> ChildPid(UnitA), res |-> 2048, cpu |-> 3],
      [pid |-> ChildPid(UnitA), res |-> BadNumber, cpu |-> 3] }

InitReaders ==
    \/ Built(Config(<< <<"a", "b">> >>, <<>>, TRUE, FALSE),
             CensusLines(UnitOrder, {UnitAB},
                         [u \in {UnitAB} |-> [load |-> StrLoaded, active |-> StrActive,
                                              sub |-> "running"]]),
             [SysRunningA EXCEPT !.pid[UnitAB] = MainPid(UnitAB)])
    \/ Built(OnlyA(TRUE, TRUE), CensusRunningA, SysRunningA)
    \/ Built(OnlyA(FALSE, TRUE), CensusRunningA, SysRunningA)

\* the journalctl process ended, or reading a line raised: the thread ends
EventsReaderEnds ==
    /\ systemctl_events_t = "alive"
    /\ pc \notin {"crashed", "exited"}
    /\ systemctl_events_t' = "dead"
    /\ reader_threads' = [reader_threads EXCEPT !.events = @ - 1]
    /\ UNCHANGED <<setup, stats_lookup, systemctl_version, systemctl_stats_t, stats_state,
                   known_event_services, pending_destroy_operations,
                   systemctl_events, systemctl_events_qsize, services, sent,
                   raised, last_reload, now, pc>>

\* a stats reader that takes the sample times with it when it ends
StatsReaderEndsForgetting ==
    /\ systemctl_stats_t = "alive"
    /\ pc \notin {"crashed", "exited"}
    /\ systemctl_stats_t' = "dead"
    /\ known_stat_services' = EmptyDict
    /\ reader_threads' = [reader_threads EXCEPT !.stats = @ - 1]
    /\ UNCHANGED <<setup, stats_lookup, systemctl_version, systemctl_events_t,
                   systemctl_stats, systemctl_stats_qsize, last_stat_services,
                   known_event_services, pending_destroy_operations,
                   systemctl_events, systemctl_events_qsize, services, sent,
                   raised, last_reload, now, pc>>

\* the top process ended, or reading a line raised: the thread ends
StatsReaderEnds ==
    /\ systemctl_stats_t = "alive"
    /\ pc \notin {"crashed", "exited"}
    /\ systemctl_stats_t' = "dead"
    /\ reader_threads' = [reader_threads EXCEPT !.stats = @ - 1]
    /\ UNCHANGED <<setup, stats_lookup, systemctl_version, systemctl_events_t, stats_state,
                   known_event_services, pending_destroy_operations,
                   systemctl_events, systemctl_events_qsize, services, sent,
                   raised, last_reload, now, pc>>

NextReaders ==
    \/ RemoveDestroyedServices
    \/ HandleEventsQsize
    \/ HandleEventsGet
    \/ HandleStatsQsize
    \/ HandleStatsGet
    \/ RestartReaders
    \/ Sleep
    \/ EventsReaderOf(OrderJournalLines, MaxOrderBacklog)
    \/ StatsReaderOf(OrderTopLines, MaxOrderBacklog)
    \/ EventsReaderEnds
    \/ StatsReaderEnds

SpecReaders == InitReaders /\ [][NextReaders]_vars

(***************************************************************************)
(* The stats reader's lookup step by step, next to a loop that reloads:    *)
(* the census of the constructor was empty, and the whitelist "ab" admits  *)
(* ab.service, which a later reload may register, and register again       *)
(***************************************************************************)
InitLookup == Built(Config(<< <<"a", "b">> >>, <<>>, TRUE, TRUE), <<>>, SysRunningA)

\* lines 517-523: a line of top whose first field is a number is read
StatsReaderReadsLine ==
    /\ systemctl_stats_t = "alive"
    /\ pc \notin {"crashed", "exited"}
    /\ stats_lookup.at = "idle"
    /\ \E line \in { [pid |-> MainPid(UnitAB), res |-> 2048, cpu |-> 3] } :
        stats_lookup' = [NoLookup EXCEPT !.at = "iterating", !.pid = line.pid,
                                         !.res = line.res, !.cpu = line.cpu,
                                         !.size = Cardinality(DOMAIN known_event_services)]
    /\ UNCHANGED <<setup, reader_threads, started, stats_state, known_event_services,
                   pending_destroy_operations, systemctl_events,
                   systemctl_events_qsize, services, sent, raised, last_reload,
                   now, pc>>

\* lines 524-531: next() over known_event_services.values(); the iterator
\* raises RuntimeError when the dict has changed size since it was made, and
\* the thread's except clause (540-543) logs it and lets the thread end
StatsReaderMatches ==
    /\ systemctl_stats_t = "alive"
    /\ pc \notin {"crashed", "exited"}
    /\ stats_lookup.at = "iterating"
    /\ IF Cardinality(DOMAIN known_event_services) # stats_lookup.size
       THEN /\ stats_lookup' = [stats_lookup EXCEPT !.at = "raised"]
            /\ systemctl_stats_t' = "dead"
            /\ reader_threads' = [reader_threads EXCEPT !.stats = @ - 1]
       ELSE LET owners == { u \in DOMAIN known_event_services :
                              \/ known_event_services[u].pid = stats_lookup.pid
                              \/ stats_lookup.pid \in Range(known_event_services[u].cpids) }
            IN
            /\ UNCHANGED <<systemctl_stats_t, reader_threads>>
            /\ IF owners = {} THEN stats_lookup' = NoLookup
               ELSE LET service == CHOOSE u \in owners : TRUE IN
                    stats_lookup' = [stats_lookup EXCEPT
                                        !.at = "found", !.service = service,
                                        !.seen_pid = known_event_services[service].pid]
    /\ UNCHANGED <<setup, systemctl_version, systemctl_events_t, stats_state,
                   known_event_services, pending_destroy_operations,
                   systemctl_events, systemctl_events_qsize, services, sent,
                   raised, last_reload, now, pc>>

\* lines 532-539: the row is put with the service found and the pid the
\* Registry has for that service now
StatsReaderPuts ==
    /\ systemctl_stats_t = "alive"
    /\ pc \notin {"crashed", "exited"}
    /\ stats_lookup.at = "found"
    /\ QueueRoom(systemctl_stats)
    /\ Len(systemctl_stats) < MaxBacklog
    /\ systemctl_stats' =
          Append(systemctl_stats,
                 [pid |-> stats_lookup.pid, res |-> stats_lookup.res,
                  cpu |-> stats_lookup.cpu, service |-> stats_lookup.service,
                  ppid |-> known_event_services[stats_lookup.service].pid])
    /\ stats_lookup' = NoLookup
    /\ UNCHANGED <<setup, reader_threads, started, systemctl_stats_qsize, known_stat_services,
                   last_stat_services, known_event_services,
                   pending_destroy_operations, systemctl_events,
                   systemctl_events_qsize, services, sent, raised, last_reload,
                   now, pc>>

NextLookup ==
    \/ RemoveDestroyedServices
    \/ HandleEventsQsize
    \/ HandleEventsGet
    \/ HandleStatsQsize
    \/ HandleStatsGet
    \/ RestartReaders
    \/ Sleep
    \/ EventsReaderOf({ [UNIT |-> UnitAB, MESSAGE |-> RELOAD_MESSAGE] }, MaxBacklog)
    \/ StatsReaderReadsLine
    \/ StatsReaderMatches
    \/ StatsReaderPuts

SpecLookup == InitLookup /\ [][NextLookup]_vars

\* the steps of the main thread
MainThread ==
    \/ Connect
    \/ GetServices
    \/ Construct
    \/ RemoveDestroyedServices
    \/ HandleEventsQsize
    \/ HandleEventsGet
    \/ HandleStatsQsize
    \/ HandleStatsGet
    \/ RestartReaders
    \/ Sleep

\* events without stats: the stats reader is not started, or finds the
\* Registry empty
Next ==
    \/ Connect
    \/ GetServices
    \/ Construct
    \/ RemoveDestroyedServices
    \/ HandleEventsQsize
    \/ HandleEventsGet
    \/ HandleStatsQsize
    \/ HandleStatsGet
    \/ RestartReaders
    \/ Sleep
    \/ EventsReader

Spec == Init /\ [][Next]_vars

\* the filter alone: the engine as __init__ leaves it when the census is
\* empty, and the events reader filtering journal lines
InitFilter ==
    /\ cfg \in FilterConfigs
    /\ host = [systemctl |-> "ok"]
    /\ stats_lookup = NoLookup
    /\ raise_known_exceptions = FALSE
    /\ known_event_services = EmptyDict
    /\ pending_destroy_operations = EmptyDict
    /\ systemctl_events = <<>>
    /\ systemctl_events_qsize = 0
    /\ services = <<>>
    /\ sent = <<>>
    /\ raised = NoException
    /\ last_reload = [ran |-> TRUE, registered_services |-> <<>>]
    /\ now = 0
    /\ pc = "destroy"
    /\ systemctl_version = "systemd"
    /\ systemctl_events_t = "alive"
    /\ systemctl_stats_t = "unset"
    /\ reader_threads = RunningThreads(systemctl_events_t, systemctl_stats_t)
    /\ systemctl_stats = <<>>
    /\ systemctl_stats_qsize = 0
    /\ known_stat_services = EmptyDict
    /\ last_stat_services = EmptyDict

(***************************************************************************)
(* Events and stats together, with either way of calling loop_busy; the    *)
(* filter admits a.service alone                                           *)
(***************************************************************************)
\* the records the journal emits here: a start and a stop of a.service and a
\* record without a job
StatsJournalLines ==
    { [UNIT |-> UnitA, MESSAGE |-> "msg", JOB_TYPE |-> "start", JOB_RESULT |-> "done"],
      [UNIT |-> UnitA, MESSAGE |-> "msg", JOB_TYPE |-> "stop", JOB_RESULT |-> "done"],
      [UNIT |-> UnitA, MESSAGE |-> "msg"] }

InitStats ==
    /\ Fresh
    /\ cfg = Config(<< <<"a">> >>, << <<".", "b">> >>, TRUE, TRUE)
    /\ host = [systemctl |-> "ok"]
    /\ raise_known_exceptions \in BOOLEAN

NextStats ==
    \/ Connect
    \/ GetServices
    \/ Construct
    \/ RemoveDestroyedServices
    \/ HandleEventsQsize
    \/ HandleEventsGet
    \/ HandleStatsQsize
    \/ HandleStatsGet
    \/ RestartReaders
    \/ Sleep
    \/ EventsReaderOf(StatsJournalLines, MaxBacklog)
    \/ StatsReader

SpecStats == InitStats /\ [][NextStats]_vars

(***************************************************************************)
(* _register_service and _unregister_service called on their own, on an    *)
(* engine as __init__ leaves it when the census is empty, and the events   *)
(* handler's treatment of a record after such a call                       *)
(***************************************************************************)
\* the entries _reload_services builds from census lines of loaded units
ServiceEntries ==
    { [name |-> u, description |-> "desc",
       pid |-> IF running THEN MainPid(u) ELSE NoMainPid,
       cpids |-> <<ChildPid(u)>>, status |-> StatusStr(st), state |-> StateStr(st)] :
        u \in Units, running \in BOOLEAN,
        st \in { c \in CensusStates : Contains(StrLoad, c.load) } }

InitRegistry ==
    /\ cfg = Config(<<>>, <<>>, TRUE, FALSE)
    /\ host = [systemctl |-> "ok"]
    /\ stats_lookup = NoLookup
    /\ raise_known_exceptions = FALSE
    /\ known_event_services = EmptyDict
    /\ pending_destroy_operations = EmptyDict
    /\ systemctl_events = <<>>
    /\ systemctl_events_qsize = 0
    /\ services = <<>>
    /\ sent = <<>>
    /\ raised = NoException
    /\ last_reload = [ran |-> TRUE, registered_services |-> <<>>]
    /\ now = 0
    /\ pc = "destroy"
    /\ systemctl_version = "systemd"
    /\ systemctl_events_t = "alive"
    /\ systemctl_stats_t = "unset"
    /\ reader_threads = RunningThreads(systemctl_events_t, systemctl_stats_t)
    /\ systemctl_stats = <<>>
    /\ systemctl_stats_qsize = 0
    /\ known_stat_services = EmptyDict
    /\ last_stat_services = EmptyDict

\* a call of _register_service
Register ==
    /\ pc \in {"destroy", "registered", "unregistered"}
    /\ \E service_entry \in ServiceEntries :
        Apply(_register_service(
                  Machine(known_event_services, pending_destroy_operations),
                  service_entry))
    /\ pc' = "registered"
    /\ UNCHANGED <<setup, stats_lookup, reader_threads, started, stats_state, systemctl_events,
                   systemctl_events_qsize, services, now>>

\* a call of _unregister_service
Unregister ==
    /\ pc \in {"destroy", "registered", "unregistered"}
    /\ \E service \in Units :
        Apply(_unregister_service(
                  Machine(known_event_services, pending_destroy_operations),
                  service))
    /\ pc' = "unregistered"
    /\ UNCHANGED <<setup, stats_lookup, reader_threads, started, stats_state, systemctl_events,
                   systemctl_events_qsize, services, now>>

\* lines 908-976 on a record of a finished start, right after such a call
HandleEvent ==
    /\ pc \in {"registered", "unregistered"}
    /\ \E service \in Units :
        LET event == [UNIT |-> service, MESSAGE |-> "msg", JOB_TYPE |-> "start",
                      JOB_RESULT |-> "done"]
        IN \E sys \in SysViewsFor(event) :
            Apply(ProcessEvent(
                      Machine(known_event_services, pending_destroy_operations),
                      event, <<>>, sys, now))
    /\ pc' = "handled"
    /\ UNCHANGED <<setup, stats_lookup, reader_threads, started, stats_state,
                   systemctl_events, systemctl_events_qsize, services, now>>

NextRegistry ==
    \/ Register
    \/ Unregister
    \/ HandleEvent

SpecRegistry == InitRegistry /\ [][NextRegistry]_vars

(***************************************************************************)
(* Construction alone, whatever the host answers and whatever is enabled   *)
(***************************************************************************)
StartupConfigs ==
    { Config(f[1], f[2], events, stats) :
        f \in { << <<>>, <<>> >>, << << <<"a">> >>, << <<".", "b">> >> >> },
        events \in BOOLEAN, stats \in BOOLEAN }

InitStartup ==
    /\ Fresh
    /\ cfg \in StartupConfigs
    /\ host \in [systemctl : VersionAnswers]
    /\ raise_known_exceptions = FALSE

NextStartup ==
    \/ Connect
    \/ GetServices
    \/ Construct

SpecStartup == InitStartup /\ [][NextStartup]_vars

NextFilter == EventsReader

SpecFilter == InitFilter /\ [][NextFilter]_vars

(***************************************************************************)
(* Properties                                                              *)
(***************************************************************************)
\* this step is _handle_events_queue handling the record at the head of the
\* queue (the length read before the get was positive)
HandlesHead ==
    /\ pc = "events_get"
    /\ pc' # pc
    /\ b_events
    /\ systemctl_events # <<>>
    /\ systemctl_events_qsize > 0

IsTableRecord(e) ==
    /\ "JOB_TYPE" \in DOMAIN e
    /\ "JOB_RESULT" \in DOMAIN e
    /\ e.JOB_TYPE \in {"start", "stop", "restart"}

\* the transition table of the specification
TableStatus(e) ==
    IF e.JOB_TYPE = "start"
    THEN (IF e.JOB_RESULT = "done" THEN "running" ELSE "failed")
    ELSE (IF e.JOB_RESULT = "done" THEN "exited" ELSE "failed")
TableState(e) == IF e.JOB_TYPE = "start" THEN "on" ELSE "off"

\* some entry of the list matches the service
Matches(service, list) == \E i \in 1..Len(list) : _match_service(service, list[i])

FilterSpecified(service) ==
    /\ Len(cfg.service_whitelist) = 0 \/ Matches(service, cfg.service_whitelist)
    /\ ~Matches(service, cfg.service_blacklist)

\* C1: for every service name and every whitelist/blacklist configuration,
\* _filter_service returns true iff (the whitelist is empty or some whitelist
\* entry matches) and no blacklist entry matches; so the reader enqueues only
\* records of such units, and a name matched by both lists is rejected.
C1_FilterCorrect ==
    /\ \A s \in JournalUnits : _filter_service(s) = FilterSpecified(s)
    /\ \A i \in 1..Len(systemctl_events) : FilterSpecified(systemctl_events[i].UNIT)

\* a unit matched by both lists was rejected while the reader enqueued a
\* record of a unit the whitelist admits
C1_Witness ==
    /\ \E s \in JournalUnits :
        /\ Matches(s, cfg.service_whitelist)
        /\ Matches(s, cfg.service_blacklist)
        /\ ~_filter_service(s)
    /\ Len(cfg.service_whitelist) > 0
    /\ systemctl_events # <<>>

\* C2 as stated: handling a record for a registered service that carries a
\* job type of the table and a job result sets (status, state) per the table
\* and then publishes the updated entry retained to the events topic.
C2_TableAndPublish ==
    [][ HandlesHead =>
          LET e == Head(systemctl_events)
              s == e.UNIT
          IN (IsTableRecord(e) /\ s \in DOMAIN known_event_services) =>
                /\ s \in DOMAIN known_event_services'
                /\ known_event_services'[s].status = TableStatus(e)
                /\ known_event_services'[s].state = TableState(e)
                /\ sent' # <<>>
                /\ sent'[Len(sent')] =
                       Msg(events_topic(s), EventPayload(known_event_services'[s]), TRUE)
      ]_vars

\* C2 amended: for a record whose message is not the reload message, (status,
\* state) are set per the table; the updated entry is then published retained
\* to the events topic, unless the record is a start event whose pid lookup
\* fails: then an events exception is raised and nothing is published.
C2_TableThenPublishUnlessPidFails ==
    [][ HandlesHead =>
          LET e == Head(systemctl_events)
              s == e.UNIT
          IN (/\ IsTableRecord(e)
              /\ e.MESSAGE # RELOAD_MESSAGE
              /\ s \in DOMAIN known_event_services) =>
                /\ s \in DOMAIN known_event_services'
                /\ known_event_services'[s].status = TableStatus(e)
                /\ known_event_services'[s].state = TableState(e)
                /\ \/ /\ raised' = NoException
                      /\ sent' = << Msg(events_topic(s),
                                        EventPayload(known_event_services'[s]), TRUE) >>
                   \/ /\ e.JOB_TYPE = "start"
                      /\ raised' = [exc |-> "Systemctl2MqttEventsException",
                                    cause |-> "ValueError"]
                      /\ known_event_services'[s].pid = known_event_services[s].pid
                      /\ sent' = <<>>
      ]_vars

\* a stop or restart that ended well was handled: only that gives "exited"
C2_Witness ==
    /\ pc = "stats_qsize"
    /\ UnitA \in DOMAIN known_event_services
    /\ known_event_services[UnitA].status = "exited"
    /\ known_event_services[UnitA].state = "off"
    /\ sent = << Msg(events_topic(UnitA), EventPayload(known_event_services[UnitA]), TRUE) >>

\* what a job event for the unit of `old` may change of it
EntryFrame(old, new, job_type) ==
    /\ new.name = old.name
    /\ new.description = old.description
    /\ new.cpids = old.cpids
    /\ job_type # "start" => new.pid = old.pid

RegistryFrame(e) ==
    /\ DOMAIN known_event_services' = DOMAIN known_event_services
    /\ \A o \in DOMAIN known_event_services :
        IF o = e.UNIT
        THEN EntryFrame(known_event_services[o], known_event_services'[o], e.JOB_TYPE)
        ELSE known_event_services'[o] = known_event_services[o]

\* C3 as stated: handling a job event for service s changes only s's Registry
\* entry, and of it only status, state and (for a start event) pid.
C3_JobEventFrame ==
    [][ HandlesHead =>
          LET e == Head(systemctl_events)
          IN "JOB_TYPE" \in DOMAIN e => RegistryFrame(e)
      ]_vars

\* C3 amended: the same, for a job event whose message is not the reload
\* message (a record with the reload message runs a full reload first).
C3_JobEventFrameUnlessReload ==
    [][ HandlesHead =>
          LET e == Head(systemctl_events)
          IN ("JOB_TYPE" \in DOMAIN e /\ e.MESSAGE # RELOAD_MESSAGE) => RegistryFrame(e)
      ]_vars

\* a start event gave one unit its main pid while the other unit's entry
\* still is as the reload left it
C3_Witness ==
    /\ pc = "stats_qsize"
    /\ raised = NoException
    /\ DOMAIN known_event_services = Units
    /\ known_event_services[UnitA].status = "failed"
    /\ known_event_services[UnitA].state = "on"
    /\ known_event_services[UnitA].pid = MainPid(UnitA)
    /\ known_event_services[UnitAB].status = "dead"
    /\ sent = << Msg(events_topic(UnitA), EventPayload(known_event_services[UnitA]), TRUE) >>

\* C4 as stated, right after an accepted start or restart event (then the
\* most recently accepted one): state is "on" iff the event resulted in
\* status "running".
C4_OnIffRunning ==
    [][ HandlesHead =>
          LET e == Head(systemctl_events)
              s == e.UNIT
          IN (/\ IsTableRecord(e)
              /\ e.JOB_TYPE \in {"start", "restart"}
              /\ s \in DOMAIN known_event_services
              /\ raised' = NoException) =>
                (known_event_services'[s].state = "on"
                    <=> known_event_services'[s].status = "running")
      ]_vars

\* C4 amended: the state of a registered service changes only when a job
\* event of the table for it, or a reload, is handled; a handled start event
\* leaves it "on" whatever the result, a handled stop or restart event "off".
C4_OnIffStart ==
    [][ \A s \in Units :
          (s \in DOMAIN known_event_services /\ s \in DOMAIN known_event_services') =>
            /\ (/\ HandlesHead
                /\ Head(systemctl_events).UNIT = s
                /\ IsTableRecord(Head(systemctl_events))
                /\ Head(systemctl_events).MESSAGE # RELOAD_MESSAGE) =>
                   (known_event_services'[s].state = "on"
                       <=> Head(systemctl_events).JOB_TYPE = "start")
            /\ known_event_services'[s].state # known_event_services[s].state =>
                   /\ HandlesHead
                   /\ \/ Head(systemctl_events).MESSAGE = RELOAD_MESSAGE
                      \/ /\ Head(systemctl_events).UNIT = s
                         /\ IsTableRecord(Head(systemctl_events))
      ]_vars

\* a failed start was handled: state "on" with status "failed"
C4_Witness ==
    /\ UnitAB \in DOMAIN known_event_services
    /\ known_event_services[UnitAB].status = "running"
    /\ known_event_services[UnitAB].state = "on"
    /\ UnitA \in DOMAIN known_event_services
    /\ known_event_services[UnitA].status = "failed"
    /\ known_event_services[UnitA].state = "on"

\* the mapping of the specification from the active field
MappedStatus(active) ==
    IF active = StrActive THEN "running"
    ELSE IF active = StrFailed THEN "failed"
    ELSE "exited"
MappedState(active) == IF active = StrActive THEN "on" ELSE "off"

\* C5 as stated: the reload of the constructor, when it succeeds, registers
\* each filter-passing, loaded census service with (status, state) mapped from
\* its active field: active -> (running, on); inactive -> (exited, off);
\* failed -> (failed, off); anything else -> (exited, off).
C5_ReloadMapping ==
    [][ (pc = "init_reload" /\ pc' = "destroy" /\ b_events) =>
          \A i \in 1..Len(services) :
            (_filter_service(services[i].unit) /\ services[i].load = StrLoaded) =>
                /\ services[i].unit \in DOMAIN known_event_services'
                /\ known_event_services'[services[i].unit].status
                       = MappedStatus(services[i].active)
                /\ known_event_services'[services[i].unit].state
                       = MappedState(services[i].active)
      ]_vars

\* C6 as stated: in every reachable state every Registry entry has status in
\* {running, exited, failed} and state in {on, off}.
C6_StatusStateTyped ==
    \A s \in DOMAIN known_event_services :
        /\ known_event_services[s].status \in {"running", "exited", "failed"}
        /\ known_event_services[s].state \in {"on", "off"}

\* C7 as stated, for the reload a record with the reload message triggers:
\* every service that was in the Registry, was not registered by this reload
\* (whose scan did not fail) and was not already pending-destroy has a
\* PendingDestroy entry with the time of this reload, and the reload
\* completes without error.
C7_MissingMarkedPending ==
    [][ (/\ HandlesHead
         /\ Head(systemctl_events).MESSAGE = RELOAD_MESSAGE
         /\ "JOB_TYPE" \notin DOMAIN Head(systemctl_events)) =>
          \A s \in DOMAIN known_event_services :
            (/\ s \notin DOMAIN pending_destroy_operations
             /\ last_reload'.ran
             /\ s \notin Range(last_reload'.registered_services)
             /\ raised'.cause # "ValueError") =>
                /\ s \in DOMAIN pending_destroy_operations'
                /\ pending_destroy_operations'[s] = now
                /\ raised'.exc # "Systemctl2MqttEventsException"
      ]_vars

(***************************************************************************)
(* Liveness                                                                *)
(***************************************************************************)
\* one configuration: events enabled, no filter
InitFair ==
    /\ Init
    /\ cfg = Config(<<>>, <<>>, TRUE, FALSE)

\* a sleep during which the clock moves on
Tick == Sleep /\ now' > now

\* the clock does not stand still over infinitely many sleeps; nothing is
\* assumed of the journal, and that the loop keeps going round is a premise
\* of the property below
SpecFair == InitFair /\ [][Next]_vars /\ SF_vars(Tick)

\* loop_busy keeps going round: it starts a pass and goes to sleep again and
\* again
TicksContinue == []<>(pc = "destroy") /\ []<>(pc = "sleep")

\* the last reload ran its scan to the end and did not register s
Missed(s) ==
    /\ s \in DOMAIN known_event_services
    /\ last_reload.ran
    /\ s \notin Range(last_reload.registered_services)
    /\ raised.cause # "ValueError"

Reappeared(s) ==
    /\ last_reload.ran
    /\ s \in Range(last_reload.registered_services)

\* the empty retained payloads _unregister_service sends
Retracted(s) ==
    /\ \E i \in 1..Len(sent) :
         sent[i] = Msg(discovery_binary_sensor_topic(s), EmptyPayload, TRUE)
    /\ \E i \in 1..Len(sent) : sent[i] = Msg(events_topic(s), EmptyPayload, TRUE)
    /\ \E i \in 1..Len(sent) : sent[i] = Msg(stats_topic(s), EmptyPayload, TRUE)
    /\ \A j \in 1..Len(STATS_REGISTRATION_ENTRIES) :
         \E i \in 1..Len(sent) :
           sent[i] = Msg(discovery_sensor_topic(s, STATS_REGISTRATION_ENTRIES[j]),
                         EmptyPayload, TRUE)

\* C10 as stated: with ticks continuing and time advancing (the clock can
\* still pass the reload's time by more than the ttl), a registered service
\* absent from a reload is eventually retracted with empty retained payloads,
\* unless a later reload registers it again.
C10_AbsentEventuallyRetracted ==
    TicksContinue =>
        \A s \in Units :
            (Missed(s) /\ now + Ttl < MaxTime) ~> (Retracted(s) \/ Reappeared(s))

(***************************************************************************)
(* Construction                                                            *)
(***************************************************************************)
\* the broker was connected to, the reload ran or a reader was started
Proceeded ==
    \/ sent # <<>>
    \/ last_reload.ran
    \/ systemctl_events_t = "alive"
    \/ systemctl_stats_t = "alive"

\* C18 as stated: when the systemctl binary is not found, construction aborts
\* with a configuration error, before any broker connection, reload or
\* thread start.
C18_MissingBinaryAborts ==
    host.systemctl = "missing" =>
        /\ pc \in {"new", "crashed"}
        /\ pc = "crashed" => raised.exc = "Systemctl2MqttConfigException"
        /\ ~Proceeded

\* construction is over
Constructed == pc \in {"destroy", "exited"}

\* C19: once construction is over, exactly the enabled readers are started;
\* if neither is enabled the process has exited with code 1 and the loop is
\* not entered, otherwise the loop is entered; until then, and when
\* construction fails, no reader is started.
C19_ReadersAsEnabled ==
    /\ Constructed =>
        /\ systemctl_events_t = "alive" <=> b_events
        /\ systemctl_stats_t = "alive" <=> b_stats
        /\ pc = "exited" <=> (~b_events /\ ~b_stats)
        /\ pc = "exited" => raised.exc = "SystemExit(1)"
        /\ pc = "destroy" => raised = NoException
    /\ ~Constructed =>
        /\ systemctl_events_t = "unset"
        /\ systemctl_stats_t = "unset"

\* nothing was enabled: the reload ran, no reader was started and the
\* process exited
C19_Witness ==
    /\ pc = "exited"
    /\ ~b_events
    /\ ~b_stats
    /\ last_reload.ran
    /\ systemctl_events_t = "unset"
    /\ systemctl_stats_t = "unset"
    /\ raised.exc = "SystemExit(1)"

(***************************************************************************)
(* loop_busy and the exceptions of the handlers                            *)
(***************************************************************************)
KnownExceptions == {"Systemctl2MqttEventsException", "Systemctl2MqttStatsException"}

\* C17: when a handler of loop() has raised an events or a stats exception,
\* loop_busy has terminated iff raise_known_exceptions is true; otherwise it
\* goes to sleep and on to the next pass.
C17_KnownExceptionEndsLoopIffRaise ==
    raised.exc \in KnownExceptions =>
        /\ pc = "crashed" <=> raise_known_exceptions
        /\ pc = "sleep" <=> ~raise_known_exceptions

\* a stats exception ended a loop_busy called with raise_known_exceptions
C17_Witness ==
    /\ raise_known_exceptions
    /\ raised.exc = "Systemctl2MqttStatsException"
    /\ pc = "crashed"

\* this step is _handle_stats_queue handling the row at the head of the
\* queue (the length read before the get was positive)
HandlesStat ==
    /\ pc = "stats_get"
    /\ pc' # pc
    /\ b_stats
    /\ systemctl_stats # <<>>
    /\ systemctl_stats_qsize > 0

\* C15 as stated: when loop_busy was called with raise_known_exceptions
\* false, handling a dequeued event record never terminates the loop: a
\* failure is raised as Systemctl2MqttEventsException and the loop goes to
\* sleep for the next tick.
C15_EventNeverEndsLoop ==
    [][ (HandlesHead /\ ~raise_known_exceptions) =>
          /\ pc' # "crashed"
          /\ raised' # NoException =>
                /\ raised'.exc = "Systemctl2MqttEventsException"
                /\ pc' = "sleep"
      ]_vars

\* C16 as stated: every failure while handling a dequeued stats row is
\* raised as Systemctl2MqttStatsException, so that with
\* raise_known_exceptions false no stats row terminates the loop.
C16_StatFailureTyped ==
    [][ HandlesStat =>
          /\ raised' # NoException => raised'.exc = "Systemctl2MqttStatsException"
          /\ ~raise_known_exceptions => pc' # "crashed"
      ]_vars

(***************************************************************************)
(* The queues between the readers and the loop                             *)
(***************************************************************************)
\* C20 as stated: whenever a pass of the loop removes an item from the
\* events queue or from the stats queue, it handles it (lines 909 and 1012
\* let it through), however the readers' puts interleave with the pass.
C20_RemovedItemHandled ==
    [][ /\ (pc = "events_get" /\ systemctl_events' # systemctl_events) =>
               systemctl_events_qsize > 0
        /\ (pc = "stats_get" /\ systemctl_stats' # systemctl_stats) =>
               systemctl_stats_qsize > 0
      ]_vars

(***************************************************************************)
(* register, unregister, reload                                            *)
(***************************************************************************)
\* the next step may call _reload_services: the constructor's reload of the
\* census it fetched, or the handling of a record with the reload message
ReloadPoint ==
    \/ pc = "init_reload"
    \/ /\ pc = "events_get"
       /\ b_events
       /\ systemctl_events # <<>>
       /\ systemctl_events_qsize > 0
       /\ Head(systemctl_events).MESSAGE = RELOAD_MESSAGE

ReloadCensuses == IF pc = "init_reload" THEN {services} ELSE Censuses

\* C11: wherever the program calls reload, for every census and every
\* answer to the pid lookups, a second reload right after the first (at the
\* same time or later) with the same census and the same answers leaves the
\* Registry and PendingDestroy as the first left them; so the second adds no
\* PendingDestroy entry and no Registry key.
C11_ReloadTwiceSame ==
    ReloadPoint =>
        \A census \in ReloadCensuses, sys \in SysViews, later \in {0, 1} :
            LET first == _reload_services(
                             Machine(known_event_services, pending_destroy_operations),
                             census, sys, now)
                second == _reload_services(Machine(first.known, first.pending),
                                           census, sys, now + later)
            IN /\ second.known = first.known
               /\ second.pending = first.pending
               /\ second.reload.registered_services = first.reload.registered_services

\* a record with the reload message was handled after construction: the
\* second reload of the run registered both units again, without error
C11_Witness ==
    /\ pc = "stats_qsize"
    /\ last_reload.ran
    /\ last_reload.registered_services = <<UnitA, UnitAB>>
    /\ raised = NoException
    /\ DOMAIN known_event_services = Units
    /\ pending_destroy_operations = EmptyDict

Count(seq, x) == Cardinality({ i \in 1..Len(seq) : seq[i] = x })

\* what the specification has register(e) publish, all retained
RegistrationSet(e) ==
    { Msg(discovery_binary_sensor_topic(e.name),
          DiscoveryPayload(<<"E", "v", "e", "n", "t", "s">>, events_topic(e.name)), TRUE),
      Msg(events_topic(e.name), EventPayload(e), TRUE),
      Msg(stats_topic(e.name), EmptyObject, TRUE) }
    \cup { Msg(discovery_sensor_topic(e.name, STATS_REGISTRATION_ENTRIES[i]),
                DiscoveryPayload(STATS_REGISTRATION_ENTRIES[i], stats_topic(e.name)), TRUE) :
            i \in 1..Len(STATS_REGISTRATION_ENTRIES) }

\* construction has just ended: `sent` holds what its reload published
JustConstructed == pc = "destroy" /\ last_reload.ran

TopicsOf(msgs) == { msgs[i].topic : i \in 1..Len(msgs) }

\* the topics of a service: the binary-sensor discovery topic, a sensor
\* discovery topic per stats field, the events topic and the stats topic
ServiceTopics(s) ==
    { discovery_binary_sensor_topic(s), events_topic(s), stats_topic(s) }
    \cup { discovery_sensor_topic(s, STATS_REGISTRATION_ENTRIES[i]) :
            i \in 1..Len(STATS_REGISTRATION_ENTRIES) }

\* this step is the call unregister(s)
Unregisters(s) ==
    /\ pc' = "unregistered"
    /\ sent' = _unregister_service(
                   Machine(known_event_services, pending_destroy_operations), s).sent

\* this step is the call register(e) of an entry e for s
Registers(s) ==
    /\ pc' = "registered"
    /\ s \in DOMAIN known_event_services'
    /\ sent' = _register_service(
                   Machine(known_event_services, pending_destroy_operations),
                   known_event_services'[s]).sent

\* C12 as stated: after unregister(s) has returned, s is no key of the
\* Registry.
C12_UnregisterRemovesKey ==
    [][ \A s \in Units : Unregisters(s) => s \notin DOMAIN known_event_services' ]_vars

C21_QueuesBoundedReadersWait ==
    [][ /\ Len(systemctl_events') <= MAX_QUEUE_SIZE
        /\ Len(systemctl_stats') <= MAX_QUEUE_SIZE
        /\ Len(systemctl_events) = MAX_QUEUE_SIZE =>
              systemctl_events' \in {systemctl_events, Tail(systemctl_events)}
        /\ Len(systemctl_stats) = MAX_QUEUE_SIZE =>
              systemctl_stats' \in {systemctl_stats, Tail(systemctl_stats)}
        /\ Len(systemctl_events') > Len(systemctl_events) =>
              /\ Len(systemctl_events') = Len(systemctl_events) + 1
              /\ SubSeq(systemctl_events', 1, Len(systemctl_events)) = systemctl_events
        /\ Len(systemctl_stats') > Len(systemctl_stats) =>
              /\ Len(systemctl_stats') = Len(systemctl_stats) + 1
              /\ SubSeq(systemctl_stats', 1, Len(systemctl_stats)) = systemctl_stats
      ]_vars

\* the stats queue is full while the loop is about to take a row from it
C21_Witness ==
    /\ Len(systemctl_stats) = MAX_QUEUE_SIZE
    /\ pc = "stats_get"
    /\ systemctl_stats_t = "alive"

\* C22: a queue changes only by a reader putting one item at its end or by
\* the loop taking the item at its front, and when the loop handles what it
\* took, it is the front item that is handled (the job of the front record
\* is applied; the pid of the front row is sampled); so items leave a queue
\* in the order they entered it, whether or not the reader ended and was
\* started again in between.
C22_QueuesFifo ==
    [][ /\ systemctl_events' # systemctl_events =>
              \/ /\ Len(systemctl_events') = Len(systemctl_events) + 1
                 /\ SubSeq(systemctl_events', 1, Len(systemctl_events)) = systemctl_events
                 /\ pc' = pc
              \/ /\ pc = "events_get"
                 /\ systemctl_events # <<>>
                 /\ systemctl_events' = Tail(systemctl_events)
                 /\ LET e == Head(systemctl_events) IN
                    (/\ systemctl_events_qsize > 0
                     /\ IsTableRecord(e)
                     /\ e.MESSAGE # RELOAD_MESSAGE
                     /\ e.UNIT \in DOMAIN known_event_services) =>
                        /\ known_event_services'[e.UNIT].status = TableStatus(e)
                        /\ known_event_services'[e.UNIT].state = TableState(e)
        /\ systemctl_stats' # systemctl_stats =>
              \/ /\ Len(systemctl_stats') = Len(systemctl_stats) + 1
                 /\ SubSeq(systemctl_stats', 1, Len(systemctl_stats)) = systemctl_stats
                 /\ pc' = pc
              \/ /\ pc = "stats_get"
                 /\ systemctl_stats # <<>>
                 /\ systemctl_stats' = Tail(systemctl_stats)
                 /\ LET stat == Head(systemctl_stats) IN
                    systemctl_stats_qsize > 0 =>
                        /\ stat.service \in DOMAIN known_stat_services'
                        /\ stat.pid \in DOMAIN known_stat_services'[stat.service]
      ]_vars

\* of a failed stop and a start that were queued in this order, the stop has
\* been handled and the start is still queued
C22_Witness ==
    /\ pc = "stats_qsize"
    /\ systemctl_events =
           << [UNIT |-> UnitAB, MESSAGE |-> "msg", JOB_TYPE |-> "start",
               JOB_RESULT |-> "done"] >>
    /\ UnitAB \in DOMAIN known_event_services
    /\ known_event_services[UnitAB].status = "failed"
    /\ known_event_services[UnitAB].state = "off"
    /\ sent # <<>>

\* C23 as stated: whenever a call of loop() ends, however it ends, a reader
\* that is enabled and whose thread was not alive has been started again,
\* and a reader that is not enabled is never started.
C23_DeadReaderRestartedEveryTick ==
    [][ /\ (pc' = "sleep" /\ pc # "sleep") =>
              /\ (b_events /\ systemctl_events_t # "alive") => systemctl_events_t' = "alive"
              /\ (b_stats /\ systemctl_stats_t # "alive") => systemctl_stats_t' = "alive"
        /\ ~b_events => systemctl_events_t' # "alive"
        /\ ~b_stats => systemctl_stats_t' # "alive"
      ]_vars

\* C23 amended: when a call of loop() ends without an exception, a reader
\* that is enabled and whose thread was not alive has been started again;
\* when the destroy sweep or a queue handler raised, the call ends with the
\* readers as they were; a reader is started only there, and one that is not
\* enabled never.
C23_DeadReaderRestartedUnlessTickRaises ==
    [][ /\ (pc' = "sleep" /\ pc # "sleep" /\ raised' = NoException) =>
              /\ (b_events /\ systemctl_events_t # "alive") => systemctl_events_t' = "alive"
              /\ (b_stats /\ systemctl_stats_t # "alive") => systemctl_stats_t' = "alive"
        /\ (pc' = "sleep" /\ pc # "sleep" /\ raised' # NoException) =>
              /\ systemctl_events_t' = systemctl_events_t
              /\ systemctl_stats_t' = systemctl_stats_t
        /\ (systemctl_events_t' = "alive" /\ systemctl_events_t # "alive") =>
              pc = "restart" /\ b_events
        /\ (systemctl_stats_t' = "alive" /\ systemctl_stats_t # "alive") =>
              pc = "restart" /\ b_stats
        /\ ~b_events => systemctl_events_t' # "alive"
        /\ ~b_stats => systemctl_stats_t' # "alive"
      ]_vars

\* a call of loop() ended with an events exception while the events reader
\* was not alive: it was not started again
C23_Witness ==
    /\ pc = "sleep"
    /\ raised.exc = "Systemctl2MqttEventsException"
    /\ b_events
    /\ systemctl_events_t = "dead"

\* C26 as stated: handling a record that does not carry the reload message
\* and lacks a job type or a job result changes no Registry entry and
\* publishes nothing.
C26_NoiseSkipped ==
    [][ HandlesHead =>
          LET e == Head(systemctl_events) IN
          (/\ e.MESSAGE # RELOAD_MESSAGE
           /\ ("JOB_TYPE" \notin DOMAIN e \/ "JOB_RESULT" \notin DOMAIN e)) =>
              /\ known_event_services' = known_event_services
              /\ sent' = <<>>
      ]_vars

\* C26 amended: handling such a record changes no Registry entry and no
\* PendingDestroy entry, and publishes the unit's unchanged entry retained to
\* its events topic, nothing else; when the unit is no key of the Registry
\* nothing is published and the lookup for the publish fails with KeyError.
C26_NoiseRepublishesUnchanged ==
    [][ HandlesHead =>
          LET e == Head(systemctl_events) IN
          (/\ e.MESSAGE # RELOAD_MESSAGE
           /\ ("JOB_TYPE" \notin DOMAIN e \/ "JOB_RESULT" \notin DOMAIN e)) =>
              /\ known_event_services' = known_event_services
              /\ pending_destroy_operations' = pending_destroy_operations
              /\ ~last_reload'.ran
              /\ IF e.UNIT \in DOMAIN known_event_services
                 THEN /\ sent' = << Msg(events_topic(e.UNIT),
                                        EventPayload(known_event_services[e.UNIT]),
                                        TRUE) >>
                      /\ raised' = NoException
                 ELSE /\ sent' = <<>>
                      /\ raised' = [exc |-> "KeyError", cause |-> "none"]
      ]_vars

\* the events handler published, without a reload, an entry whose status is
\* none the job branches assign: the record it handled had no job to apply
C26_Witness ==
    /\ pc = "stats_qsize"
    /\ raised = NoException
    /\ ~last_reload.ran
    /\ UnitA \in DOMAIN known_event_services
    /\ known_event_services[UnitA].status = "dead"
    /\ sent = << Msg(events_topic(UnitA), EventPayload(known_event_services[UnitA]), TRUE) >>

\* C27: handling a record that carries the reload message runs a reload in
\* that step, and when the record also carries a job of the table and the
\* step raises nothing, the unit's entry ends with the status and state of
\* the table and is published so last: the job is applied to what the reload
\* left, not the reload to what the job left.
C27_ReloadBeforeTransition ==
    [][ HandlesHead =>
          LET e == Head(systemctl_events) IN
          e.MESSAGE = RELOAD_MESSAGE =>
              /\ last_reload'.ran
              /\ (raised' = NoException /\ IsTableRecord(e)) =>
                    /\ e.UNIT \in DOMAIN known_event_services'
                    /\ known_event_services'[e.UNIT].status = TableStatus(e)
                    /\ known_event_services'[e.UNIT].state = TableState(e)
                    /\ sent' # <<>>
                    /\ sent'[Len(sent')] =
                          Msg(events_topic(e.UNIT),
                              EventPayload(known_event_services'[e.UNIT]), TRUE)
      ]_vars

\* a record with the reload message and a finished start was handled: the
\* reload registered the unit with the census' status "dead" and the start
\* made it "running" afterwards
C27_Witness ==
    /\ pc = "stats_qsize"
    /\ last_reload.ran
    /\ raised = NoException
    /\ UnitA \in DOMAIN known_event_services
    /\ known_event_services[UnitA].status = "running"
    /\ known_event_services[UnitA].state = "on"
    /\ Len(sent) > 1
    /\ sent[Len(sent)] =
          Msg(events_topic(UnitA), EventPayload(known_event_services[UnitA]), TRUE)
    /\ \E i \in 1..(Len(sent) - 1) :
          /\ sent[i].topic = events_topic(UnitA)
          /\ sent[i].payload.event.status = "dead"

\* C28: handling a row of (service, pid) samples it exactly when the pair
\* was not seen before or the last sample is at least stats_record_seconds
\* old; a sampled row sets the pair's last sample to now (and, when it
\* parses, puts its values into the service's rollup); a row that is not
\* sampled leaves the last samples, the rollups and the Registry as they
\* were, publishes nothing and raises nothing.
C28_SamplingWindow ==
    [][ HandlesStat =>
          LET stat == Head(systemctl_stats)
              service == stat.service
              pid == stat.pid
              first == \/ service \notin DOMAIN known_stat_services
                       \/ pid \notin DOMAIN known_stat_services[service]
              accepted == \/ first
                          \/ now - known_stat_services[service][pid]
                                >= cfg.stats_record_seconds
          IN
          IF accepted
          THEN /\ service \in DOMAIN known_stat_services'
               /\ pid \in DOMAIN known_stat_services'[service]
               /\ known_stat_services'[service][pid] = now
               /\ raised' = NoException =>
                     /\ pid \in DOMAIN last_stat_services'[service].pid_stats
                     /\ last_stat_services'[service].pid_stats[pid] =
                           [pid |-> pid, cpu |-> stat.cpu, memory |-> stat.res \div 1024]
          ELSE /\ known_stat_services' = known_stat_services
               /\ last_stat_services' = last_stat_services
               /\ known_event_services' = known_event_services
               /\ sent' = <<>>
               /\ raised' = NoException
      ]_vars

\* a row of the main pid, the only pid sampled so far, was handled at the
\* time of its last sample: nothing was published
C28_Witness ==
    /\ pc = "restart"
    /\ b_stats
    /\ systemctl_stats_qsize > 0
    /\ sent = <<>>
    /\ UnitA \in DOMAIN known_stat_services
    /\ DOMAIN known_stat_services[UnitA] = {MainPid(UnitA)}
    /\ known_stat_services[UnitA][MainPid(UnitA)] = now
    /\ last_stat_services[UnitA] # EmptyDict
    /\ DOMAIN last_stat_services[UnitA].pid_stats = {MainPid(UnitA)}

\* C29: in every stored rollup and in every published one, cpu and memory
\* are the sums of cpu and memory over the per-pid entries the rollup holds.
C29_RollupSumsItsEntries ==
    /\ \A s \in DOMAIN last_stat_services :
          last_stat_services[s] # EmptyDict =>
              LET r == last_stat_services[s] IN
              /\ r.cpu = SumOf(r.pid_stats, DOMAIN r.pid_stats, "cpu")
              /\ r.memory = SumOf(r.pid_stats, DOMAIN r.pid_stats, "memory")
    /\ \A i \in 1..Len(sent) :
          sent[i].payload.kind = "stats" =>
              LET r == sent[i].payload.stats IN
              /\ r.cpu = SumOf(r.pid_stats, DOMAIN r.pid_stats, "cpu")
              /\ r.memory = SumOf(r.pid_stats, DOMAIN r.pid_stats, "memory")

\* C30 as stated: handling a row publishes a rollup exactly when the row is
\* sampled and its pid is the primary pid attached to it.
C30_PublishIffAcceptedPrimary ==
    [][ HandlesStat =>
          LET stat == Head(systemctl_stats)
              first == \/ stat.service \notin DOMAIN known_stat_services
                       \/ stat.pid \notin DOMAIN known_stat_services[stat.service]
              accepted == \/ first
                          \/ now - known_stat_services[stat.service][stat.pid]
                                >= cfg.stats_record_seconds
          IN (sent' # <<>>) <=> (accepted /\ stat.pid = stat.ppid)
      ]_vars

\* C30 amended: handling a row publishes a rollup exactly when the row is
\* sampled, its pid is the primary pid attached to it, and neither parsing
\* the row nor the child-pid lookup fails; what is published is the one
\* stored rollup of the service, unretained; a sampled row of a child pid
\* that parses puts its values into the stored rollup and publishes nothing.
C30_PublishIffAcceptedPrimaryHandled ==
    [][ HandlesStat =>
          LET stat == Head(systemctl_stats)
              first == \/ stat.service \notin DOMAIN known_stat_services
                       \/ stat.pid \notin DOMAIN known_stat_services[stat.service]
              accepted == \/ first
                          \/ now - known_stat_services[stat.service][stat.pid]
                                >= cfg.stats_record_seconds
          IN
          /\ (sent' # <<>>) <=>
                (accepted /\ stat.pid = stat.ppid /\ raised' = NoException)
          /\ sent' # <<>> =>
                sent' = << Msg(stats_topic(stat.service),
                               StatsPayload(last_stat_services'[stat.service]),
                               FALSE) >>
          /\ (accepted /\ stat.pid # stat.ppid /\ raised' = NoException) =>
                /\ stat.pid \in DOMAIN last_stat_services'[stat.service].pid_stats
                /\ last_stat_services'[stat.service].pid_stats[stat.pid].cpu = stat.cpu
      ]_vars

\* the row of the main pid was handled after a row of the child pid: one
\* rollup was published, and it holds both pids
C30_Witness ==
    /\ pc = "restart"
    /\ UnitA \in DOMAIN last_stat_services
    /\ last_stat_services[UnitA] # EmptyDict
    /\ DOMAIN last_stat_services[UnitA].pid_stats = {MainPid(UnitA), ChildPid(UnitA)}
    /\ last_stat_services[UnitA].cpu = 6
    /\ sent = << Msg(stats_topic(UnitA), StatsPayload(last_stat_services[UnitA]), FALSE) >>

\* C31: when a sampled row of the primary pid has been handled without
\* error, every pid of the service's per-pid map is the primary pid or one
\* of the child pids the lookup of that step listed, the primary pid is one
\* of its keys, and the cpids of the service's Registry entry are the listed
\* child pids.
C31_PrunedToResolvedPids ==
    [][ HandlesStat =>
          LET stat == Head(systemctl_stats)
              service == stat.service
              first == \/ service \notin DOMAIN known_stat_services
                       \/ stat.pid \notin DOMAIN known_stat_services[service]
              accepted == \/ first
                          \/ now - known_stat_services[service][stat.pid]
                                >= cfg.stats_record_seconds
          IN
          (accepted /\ stat.pid = stat.ppid /\ raised' = NoException) =>
              /\ known_event_services'[service].cpids \in StatChildPidOutcomes(service)
              /\ stat.ppid \in DOMAIN last_stat_services'[service].pid_stats
              /\ DOMAIN last_stat_services'[service].pid_stats \subseteq
                    {stat.ppid} \cup Range(known_event_services'[service].cpids)
      ]_vars

\* the row of the main pid was handled after the sampled child had exited:
\* the child's entry is gone (the totals still count it) and the Registry
\* lists no child
C31_Witness ==
    /\ pc = "restart"
    /\ sent # <<>>
    /\ sent[1].topic = stats_topic(UnitA)
    /\ UnitA \in DOMAIN last_stat_services
    /\ last_stat_services[UnitA] # EmptyDict
    /\ DOMAIN last_stat_services[UnitA].pid_stats = {MainPid(UnitA)}
    /\ last_stat_services[UnitA].cpu = 6
    /\ known_event_services[UnitA].cpids = <<>>

\* C32: the stats reader's lookup never fails because the Registry changed
\* while it ran, and the primary pid it puts into a row is the pid the
\* service it found had when it was found.
C32_LookupSafe ==
    [][ /\ stats_lookup'.at # "raised"
        /\ (stats_lookup.at = "found" /\ stats_lookup'.at = "idle"
              /\ systemctl_stats' # systemctl_stats) =>
              systemctl_stats'[Len(systemctl_stats')].ppid = stats_lookup.seen_pid
      ]_vars

\* C33: a step that is not a step of the loop thread (the loop thread's
\* position stays) changes neither the Registry nor PendingDestroy nor the
\* sample times nor the stored rollups, and publishes nothing; what such a
\* step does to a queue is to put one item at its end.
C33_ReadersWriteOnlyQueues ==
    [][ pc' = pc =>
          /\ known_event_services' = known_event_services
          /\ pending_destroy_operations' = pending_destroy_operations
          /\ known_stat_services' = known_stat_services
          /\ last_stat_services' = last_stat_services
          /\ sent' = sent
          /\ Len(systemctl_events') >= Len(systemctl_events)
          /\ Len(systemctl_stats') >= Len(systemctl_stats)
      ]_vars

\* the stats reader has put two rows and ended, while the Registry and the
\* sample times hold what the loop thread stored
C33_Witness ==
    /\ Len(systemctl_stats) = 2
    /\ systemctl_stats_t = "dead"
    /\ UnitA \in DOMAIN known_event_services
    /\ UnitA \in DOMAIN known_stat_services
    /\ UnitA \in DOMAIN last_stat_services

\* C34: where loop_busy computes its sleep, the sleep is 1 ms plus 2 ms for
\* every free place of the fuller queue (m items, 0 <= m <= MAX_QUEUE_SIZE):
\* it lies between 1 ms and 201 ms, is 1 ms exactly when a queue is full and
\* 201 ms exactly when both are empty, and falls by 2 ms with every item
\* more (times in microseconds).
C34_SleepLinearInOccupancy ==
    pc = "sleep" =>
        LET e == Len(systemctl_events)
            s == Len(systemctl_stats)
            m == IF e >= s THEN e ELSE s
            t == sleep_time(e, s)
        IN
        /\ m \in 0..MAX_QUEUE_SIZE
        /\ t = 1000 + 2000 * (MAX_QUEUE_SIZE - m)
        /\ t >= 1000 /\ t <= 201000
        /\ t = 1000 <=> (e = MAX_QUEUE_SIZE \/ s = MAX_QUEUE_SIZE)
        /\ t = 201000 <=> (e = 0 /\ s = 0)
        /\ \A k \in 0..(MAX_QUEUE_SIZE - 1) :
              /\ sleep_time(k, s) >= sleep_time(k + 1, s)
              /\ k >= s => sleep_time(k, s) - sleep_time(k + 1, s) = 2000
              /\ k >= e => sleep_time(e, k) - sleep_time(e, k + 1) = 2000

\* loop_busy is about to sleep while the events queue is full: 1 ms
C34_Witness ==
    /\ pc = "sleep"
    /\ Len(systemctl_events) = MAX_QUEUE_SIZE
    /\ sleep_time(Len(systemctl_events), Len(systemctl_stats)) = 1000

\* C35: when handling a dequeued event record raises an events exception,
\* the Registry is as it was before the record was handled.
C35_FailedEventLeavesRegistry ==
    [][ (HandlesHead /\ raised'.exc = "Systemctl2MqttEventsException") =>
          known_event_services' = known_event_services
      ]_vars

\* C36: at every moment at most one thread runs the events reader and at
\* most one the stats reader, and the handle of a stream says alive exactly
\* when one runs; a reader thread is started only by the constructor or by
\* the loop's restart check when the handle of that stream is not alive and
\* no thread of it runs.
C36_OneReaderPerStream ==
    /\ [](/\ reader_threads.events \in {0, 1}
          /\ reader_threads.stats \in {0, 1}
          /\ reader_threads.events = 1 <=> systemctl_events_t = "alive"
          /\ reader_threads.stats = 1 <=> systemctl_stats_t = "alive")
    /\ [][ /\ reader_threads'.events > reader_threads.events =>
                \/ pc = "init_reload"
                \/ /\ pc = "restart"
                   /\ systemctl_events_t # "alive"
                   /\ reader_threads.events = 0
           /\ reader_threads'.stats > reader_threads.stats =>
                \/ pc = "init_reload"
                \/ /\ pc = "restart"
                   /\ systemctl_stats_t # "alive"
                   /\ reader_threads.stats = 0
         ]_vars

\* after a pass of the loop that ran its restart checks, and after the clock
\* moved on, one thread reads the journal while the stats reader has ended
\* and waits for the next pass
C36_Witness ==
    /\ pc = "sleep"
    /\ raised = NoException
    /\ now = 1
    /\ b_events /\ b_stats
    /\ systemctl_events_t = "alive"
    /\ reader_threads.events = 1
    /\ systemctl_stats_t = "dead"
    /\ reader_threads.stats = 0

\* C37: when stats are enabled and events are not, a reload registers
\* nothing, the Registry is empty, no row is in the stats queue, no sample
\* time and no rollup is stored, and nothing is published to a stats topic.
C37_StatsOnlyDoesNothing ==
    (~cfg.enable_events /\ cfg.enable_stats) =>
        /\ known_event_services = EmptyDict
        /\ last_reload.ran => last_reload.registered_services = <<>>
        /\ systemctl_stats = <<>>
        /\ known_stat_services = EmptyDict
        /\ last_stat_services = EmptyDict
        /\ \A i \in 1..Len(sent), u \in Units \cup JournalUnits :
              sent[i].topic # stats_topic(u)

\* with stats alone enabled the loop has passed its stats handler, at a
\* later time, while the stats reader runs
C37_Witness ==
    /\ ~cfg.enable_events
    /\ cfg.enable_stats
    /\ pc = "restart"
    /\ now = 1
    /\ systemctl_stats_t = "alive"
    /\ systemctl_events_t = "unset"

\* C38: when a record of service s is handled right after unregister(s) has
\* retracted s, nothing but empty payloads goes to the events topic and the
\* stats topic of s.
C38_RetractedStaysSilent ==
    [][ \A s \in Units :
          (/\ pc = "unregistered"
           /\ TopicsOf(sent) = ServiceTopics(s)
           /\ pc' = "handled") =>
              \A i \in 1..Len(sent') :
                  sent'[i].topic \in {events_topic(s), stats_topic(s)} =>
                      sent'[i].payload = EmptyPayload
      ]_vars
====
